---- MODULE Spec2Model ----
(***************************************************************************)
(* Model of the Django and Django REST Framework learning projects of this *)
(* repository as state machines: the Book API of advanced-api-project      *)
(* (list, detail, create, update, delete over the Book table, its URL      *)
(* configuration, the Author and Book models and AuthorSerializer), the    *)
(* posts, comments, likes, follows, feed and accounts of social_media_api, *)
(* the user profiles of relationship_app and the permission-gated post     *)
(* views of app.  One HTTP request, and one call of the ORM or of a        *)
(* serializer, is one atomic step: the framework handles a request         *)
(* synchronously, in one transaction.  A step leaves the request and its   *)
(* response in req and resp; Close forgets them when the response has      *)
(* been delivered.  Like requests handled at the same time are the         *)
(* exception: there a step is one statement of the view, and like_requests *)
(* holds the position of each worker.                                      *)
(***************************************************************************)
EXTENDS Integers, Sequences, FiniteSets, TLC

VARIABLES
    authors,        \* ids of the rows of the Author table
    books,          \* the Book table: id -> [title, publication_year, author]
    next_book_id,   \* the next value of Book's auto-increment primary key
    current_year,   \* datetime.now().year on the server
    posts,          \* the Post table: id -> [author, title, content, created_at]
    next_post_id,   \* the next value of Post's primary key
    comments,       \* the Comment table: id -> [post, author, content]
    next_comment_id,\* the next value of Comment's primary key
    likes,          \* the Like table, in order of creation: rows [user, post]
    notifications,  \* the Notification table, in order of creation
    following,      \* the follow relation: pairs <<follower, followed>>
    now,            \* the time on the social-media server (timezone.now())
    accounts,       \* the CustomUser table: username -> [password, bio]
    tokens,         \* the Token table: username -> key (one token a user)
    next_token_key, \* the index in TokenKeys of the next key generated
    next_author_id, \* the next value of Author's auto-increment primary key
    author_name,    \* the name column of the Author table: id -> name
    auth_users,     \* relationship_app's User table: the usernames
    userprofiles,   \* the UserProfile table, in order of creation: [user, role]
    app_posts,      \* the Post table of app: id -> [title, content]
    next_app_post_id, \* the next value of that table's primary key
    like_requests,  \* the like requests in progress: worker -> its position
    req,            \* the request handled by the last step, NoReq when none
    resp            \* the response to req, NoResp when none

book_vars == <<authors, books, next_book_id, current_year>>

social_vars == <<posts, next_post_id, comments, next_comment_id, likes,
                 notifications, following, now>>

account_vars == <<accounts, tokens, next_token_key>>

site_vars == <<next_author_id, author_name, auth_users, userprofiles, app_posts,
               next_app_post_id, like_requests>>

vars == <<book_vars, social_vars, account_vars, site_vars, req, resp>>

----------------------------------------------------------------------------
(* Requests, responses and permission classes *)

NoReq == [op |-> "none"]
NoResp == [status |-> 0]

Idle == req = NoReq

Response(status, data) == [status |-> status, data |-> data]

\* mutant of NotFound: a missing row is answered as a success
NotFound_no_content == Response(204, [detail |-> "no_content"])

NotFound == Response(404, [detail |-> "not_found"])

\* request.user of a request without credentials
Anonymous == "AnonymousUser"

is_authenticated(user) == user # Anonymous

SAFE_METHODS == {"GET", "HEAD", "OPTIONS"}

\* IsAuthorOrReadOnly.has_object_permission
IsAuthorOrReadOnly(method, user, obj) ==
    method \in SAFE_METHODS \/ obj.author = user

\* permission.has_permission(request, view) of a permission class
has_permission(cls, method, user) ==
    CASE cls = "IsAuthenticatedOrReadOnly" ->
            method \in SAFE_METHODS \/ is_authenticated(user)
      [] cls = "IsAuthenticated" -> is_authenticated(user)
      [] OTHER -> TRUE

\* permission.has_object_permission(request, view, obj) of a permission class
has_object_permission(cls, method, user, obj) ==
    CASE cls = "IsAuthorOrReadOnly" -> IsAuthorOrReadOnly(method, user, obj)
      [] OTHER -> TRUE

check_permissions(classes, method, user) ==
    \A i \in 1..Len(classes) : has_permission(classes[i], method, user)

check_object_permissions(classes, method, user, obj) ==
    \A i \in 1..Len(classes) : has_object_permission(classes[i], method, user, obj)

Without(table, pk) == [id \in DOMAIN table \ {pk} |-> table[id]]

With(table, pk, row) ==
    [id \in DOMAIN table \cup {pk} |-> IF id = pk THEN row ELSE table[id]]

\* a request that writes nothing
Unchanged_db == UNCHANGED <<book_vars, social_vars, account_vars, site_vars>>

----------------------------------------------------------------------------
(* advanced-api-project: bounds and input sets *)

\* number of Book primary keys the database hands out
MaxBooks == 2

\* Book.title: CharField(max_length=200)
TitleMaxLength == 200

\* the server's calendar years, in order; the clock starts at the first
ClockYears == <<2024, 2025>>

\* publication years that requests carry: past, current and future ones
Years == {2024, 2025, 2026}

\* Author primary keys that requests name; the rows of InitialAuthors exist
AuthorIds == {1, 2, 3}
InitialAuthors == {1, 2}

\* Book primary keys that requests address: one more than is ever handed out
BookIds == 1..(MaxBooks + 1)

\* the user of the Book API's clients, and the client without credentials
BookRequesters == {"testuser", Anonymous}

Repeat(c, n) == [i \in 1..n |-> c]

\* titles that requests carry: empty, short, of the maximal length, too long
Titles == {<<>>, <<"a">>, Repeat("x", TitleMaxLength), Repeat("x", TitleMaxLength + 1)}

Fields == {"title", "publication_year", "author"}

\* a JSON request body: any subset of the three fields, each with a value
BodyOf(F, t, y, a) ==
    [f \in F |-> CASE f = "title" -> t
                   [] f = "publication_year" -> y
                   [] f = "author" -> a]

Bodies ==
    UNION { { BodyOf(F, t, y, a) : t \in Titles, y \in Years, a \in AuthorIds }
            : F \in SUBSET Fields }

\* the publication_year of a body whose JSON value is no integer
\* ('not-a-number'): a number that is no year of Years stands for it
not_a_number == -1

\* the bodies of create requests, the year that is no integer among them
CreateBodies ==
    UNION { { BodyOf(F, t, y, a) : t \in Titles, y \in {ClockYears[1], not_a_number},
                                   a \in AuthorIds }
            : F \in SUBSET Fields }

----------------------------------------------------------------------------
(* BookSerializer *)

\* mutants of validate_publication_year: off by one, either way
validate_publication_year_late(value) == value > current_year + 1

validate_publication_year_early(value) == value >= current_year

\* mutant of validate_publication_year: the validator is missing
validate_publication_year_missing(value) == FALSE

\* validate_publication_year raises ValidationError
validate_publication_year(value) == value > current_year

\* mutant of field_error: only the presence of a field is checked
field_error_required_only(f, data, partial) ==
    IF f \notin DOMAIN data /\ ~partial THEN "required" ELSE ""

\* the error code of one field of `data`, "" when the field is valid
\* (partial: a PATCH, whose missing fields are skipped)
field_error(f, data, partial) ==
    IF f \notin DOMAIN data
    THEN IF partial THEN "" ELSE "required"
    ELSE CASE f = "title" ->
                IF Len(data[f]) = 0 THEN "blank"
                ELSE IF Len(data[f]) > TitleMaxLength THEN "max_length"
                ELSE ""
           [] f = "publication_year" ->
                IF data[f] = not_a_number THEN "invalid"
                ELSE IF validate_publication_year(data[f]) THEN "invalid"
                ELSE ""
           [] f = "author" ->
                IF data[f] \notin authors THEN "does_not_exist" ELSE ""

\* serializer.errors: field name -> error code, for the invalid fields only
serializer_errors(data, partial) ==
    LET bad == {f \in Fields : field_error(f, data, partial) # ""}
    IN  [f \in bad |-> field_error(f, data, partial)]

is_valid(data, partial) == DOMAIN serializer_errors(data, partial) = {}

\* serializer.data of the Book row id
BookData(id, row) ==
    [id |-> id, title |-> row.title,
     publication_year |-> row.publication_year, author |-> row.author]

\* mutant of updated_row: a submitted author is dropped
updated_row_keeps_author(row, data) ==
    [f \in Fields |-> IF f \in DOMAIN data /\ f # "author" THEN data[f] ELSE row[f]]

\* ModelSerializer.update: the validated fields overwrite the instance's
updated_row(row, data) ==
    [f \in Fields |-> IF f \in DOMAIN data THEN data[f] ELSE row[f]]

----------------------------------------------------------------------------
(* Book views *)

\* mutants of the permission classes: the list closed, the delete open
BookListView_permission_classes_closed == <<"IsAuthenticated">>

BookDeleteView_permission_classes_open == <<"AllowAny">>

BookListView_permission_classes == <<"AllowAny">>
BookDetailView_permission_classes == <<"AllowAny">>
BookCreateView_permission_classes == <<"IsAuthenticated">>
BookUpdateView_permission_classes == <<"IsAuthenticated">>
BookDeleteView_permission_classes == <<"IsAuthenticated">>

\* the status of a request that IsAuthenticated denies: 401 or 403, by the
\* first authentication class of the project's settings
NotAuthenticatedStatus == {401, 403}

\* the responses to a denied request of the Book API
BookDeniedResponses ==
    {Response(s, [detail |-> "not_authenticated"]) : s \in NotAuthenticatedStatus}

\* queryset.order_by('-publication_year') (ordering = ['-publication_year']):
\* the orders the database may return the rows in
order_by_publication_year_desc(ids) ==
    { s \in [1..Cardinality(ids) -> ids] :
        /\ \A i, j \in 1..Cardinality(ids) : i # j => s[i] # s[j]
        /\ \A i \in 1..(Cardinality(ids) - 1) :
              books[s[i]].publication_year >= books[s[i + 1]].publication_year }

\* GET /books/
BookListView(user) ==
    /\ req' = [op |-> "list", method |-> "GET", user |-> user]
    /\ IF ~check_permissions(BookListView_permission_classes, "GET", user)
       THEN resp' \in BookDeniedResponses
       ELSE \E s \in order_by_publication_year_desc(DOMAIN books) :
               resp' = Response(200, [i \in 1..Len(s) |-> BookData(s[i], books[s[i]])])
    /\ Unchanged_db

\* the code point of a character of the titles
CharCode(c) ==
    CASE c = " " -> 32 [] c = "A" -> 65 [] c = "B" -> 66 [] c = "a" -> 97
      [] c = "b" -> 98 [] c = "x" -> 120 [] c = "z" -> 122

\* str.lower() of a character, and of a string
lower(c) == CASE c = "A" -> "a" [] c = "B" -> "b" [] OTHER -> c

Lower(str) == [i \in 1..Len(str) |-> lower(str[i])]

\* title__icontains=term: the term occurs in the title, the case of letters
\* ignored
icontains(title, term) ==
    \E k \in 0..(Len(title) - Len(term)) :
        SubSeq(Lower(title), k + 1, k + Len(term)) = Lower(term)

\* s < t for strings: by the code points of the first characters that
\* differ, a proper prefix first
str_lt(s, t) ==
    \E k \in 0..Len(s) :
        /\ k <= Len(t)
        /\ \A i \in 1..k : s[i] = t[i]
        /\ \/ k = Len(s) /\ k < Len(t)
           \/ /\ k < Len(s)
              /\ k < Len(t)
              /\ CharCode(s[k + 1]) < CharCode(t[k + 1])

\* the query parameters of a list request
ParamNames == {"author", "publication_year", "search", "ordering"}

\* Book titles, years and search terms of the list requests
ListTitles == {<<"A", "b">>, <<"a", " ", "b">>, <<"B">>}
ListYears == {2023, 2024}
SearchTerms == {<<>>, <<"a">>, <<"a", "B">>, <<"z">>, <<"b", " ", "a">>, <<" ">>}
OrderingTerms == {"title", "-title", "publication_year", "-publication_year", "id"}

ParamsOf(F, a, y, t, o) ==
    [p \in F |-> CASE p = "author" -> a
                   [] p = "publication_year" -> y
                   [] p = "search" -> t
                   [] p = "ordering" -> o]

ListParams ==
    UNION { { ParamsOf(F, a, y, t, o) : a \in AuthorIds, y \in ListYears,
                                        t \in SearchTerms, o \in OrderingTerms }
            : F \in SUBSET ParamNames }

\* the bodies that create the books of the list requests
ListBodies ==
    { BodyOf(Fields, t, y, a) : t \in ListTitles, y \in ListYears, a \in InitialAuthors }

\* mutant of filterset_errors: any author id is accepted
filterset_errors_none(params) == {}

\* filterset.errors: the author parameter is a choice among the Author rows
filterset_errors(params) ==
    IF "author" \in DOMAIN params /\ params["author"] \notin authors
    THEN {"author"}
    ELSE {}

\* mutant of DjangoFilterBackend_filter_queryset: the filters are joined by
\* "or"
DjangoFilterBackend_filter_any(ids, params) ==
    {id \in ids :
        \/ DOMAIN params \cap {"author", "publication_year"} = {}
        \/ \E f \in DOMAIN params \cap {"author", "publication_year"} :
              books[id][f] = params[f]}

\* DjangoFilterBackend.filter_queryset with filterset_fields = ['author',
\* 'publication_year']: exact match on each parameter given
DjangoFilterBackend_filter_queryset(ids, params) ==
    {id \in ids :
        \A f \in DOMAIN params \cap {"author", "publication_year"} :
            books[id][f] = params[f]}

\* mutant of SearchFilter_filter_queryset: the match is case-sensitive
SearchFilter_filter_contains(ids, params) ==
    IF "search" \notin DOMAIN params
    THEN ids
    ELSE {id \in ids :
            \E k \in 0..(Len(books[id].title) - Len(params["search"])) :
                SubSeq(books[id].title, k + 1, k + Len(params["search"]))
                    = params["search"]}

\* SearchFilter.get_search_terms: the search parameter split at white
\* space, the terms as a set
get_search_terms(str) ==
    { SubSeq(str, i, j) : <<i, j>> \in
        { p \in (1..Len(str)) \X (1..Len(str)) :
            /\ p[1] <= p[2]
            /\ \A k \in p[1]..p[2] : str[k] # " "
            /\ p[1] = 1 \/ str[p[1] - 1] = " "
            /\ p[2] = Len(str) \/ str[p[2] + 1] = " " } }

\* SearchFilter.filter_queryset with search_fields = ['title']: every term
\* is in the title; no search parameter, or one without a term, filters
\* nothing
SearchFilter_filter_queryset(ids, params) ==
    IF "search" \notin DOMAIN params
    THEN ids
    ELSE {id \in ids :
            \A term \in get_search_terms(params["search"]) :
                icontains(books[id].title, term)}

\* mutant of OrderingFilter_get_ordering: the parameter is ignored
OrderingFilter_default_only(params) == "-publication_year"

\* OrderingFilter.get_ordering with ordering_fields = ['title',
\* 'publication_year']: a parameter that names no such field is dropped and
\* the default ordering = ['-publication_year'] applies
OrderingFilter_get_ordering(params) ==
    IF /\ "ordering" \in DOMAIN params
       /\ params["ordering"] \in {"title", "-title", "publication_year", "-publication_year"}
    THEN params["ordering"]
    ELSE "-publication_year"

\* the row a sorts before the row b, or with it, under `ordering`
sorts_before(a, b, ordering) ==
    CASE ordering = "title" -> ~str_lt(books[b].title, books[a].title)
      [] ordering = "-title" -> ~str_lt(books[a].title, books[b].title)
      [] ordering = "publication_year" ->
            books[a].publication_year <= books[b].publication_year
      [] ordering = "-publication_year" ->
            books[a].publication_year >= books[b].publication_year

\* queryset.order_by(ordering): the orders the database may return the rows
\* in, rows of equal keys in any order
order_by(ids, ordering) ==
    { s \in [1..Cardinality(ids) -> ids] :
        /\ \A i, j \in 1..Cardinality(ids) : i # j => s[i] # s[j]
        /\ \A i \in 1..(Cardinality(ids) - 1) : sorts_before(s[i], s[i + 1], ordering) }

\* GET /books/?author=&publication_year=&search=&ordering=
BookListView_filter_queryset(user, params) ==
    /\ req' = [op |-> "list", method |-> "GET", user |-> user, params |-> params]
    /\ IF ~check_permissions(BookListView_permission_classes, "GET", user)
       THEN resp' \in BookDeniedResponses
       ELSE IF filterset_errors(params) # {}
       THEN resp' = Response(400, [f \in filterset_errors(params) |-> "invalid_choice"])
       ELSE \E s \in order_by(
                    SearchFilter_filter_queryset(
                        DjangoFilterBackend_filter_queryset(DOMAIN books, params),
                        params),
                    OrderingFilter_get_ordering(params)) :
               resp' = Response(200, [i \in 1..Len(s) |-> BookData(s[i], books[s[i]])])
    /\ Unchanged_db

\* GET /books/<pk>/
BookDetailView(user, pk) ==
    /\ req' = [op |-> "retrieve", method |-> "GET", user |-> user, pk |-> pk]
    /\ IF ~check_permissions(BookDetailView_permission_classes, "GET", user)
       THEN resp' \in BookDeniedResponses
       ELSE IF pk \notin DOMAIN books
       THEN resp' = NotFound
       ELSE resp' = Response(200, BookData(pk, books[pk]))
    /\ Unchanged_db

\* POST /books/create/
BookCreateView(user, data) ==
    /\ req' = [op |-> "create", method |-> "POST", user |-> user, data |-> data]
    /\ IF ~check_permissions(BookCreateView_permission_classes, "POST", user)
       THEN /\ resp' \in BookDeniedResponses
            /\ Unchanged_db
       ELSE IF ~is_valid(data, FALSE)
       THEN /\ resp' = Response(400, serializer_errors(data, FALSE))
            /\ Unchanged_db
       ELSE /\ next_book_id <= MaxBooks
            /\ books' = With(books, next_book_id,
                             [title |-> data["title"],
                              publication_year |-> data["publication_year"],
                              author |-> data["author"]])
            /\ next_book_id' = next_book_id + 1
            /\ resp' = Response(201, BookData(next_book_id, books'[next_book_id]))
            /\ UNCHANGED <<authors, current_year, social_vars, account_vars, site_vars>>

\* PUT or PATCH /books/<pk>/update/
BookUpdateView(method, user, pk, data) ==
    /\ req' = [op |-> "update", method |-> method, user |-> user, pk |-> pk,
               data |-> data]
    /\ IF ~check_permissions(BookUpdateView_permission_classes, method, user)
       THEN /\ resp' \in BookDeniedResponses
            /\ Unchanged_db
       ELSE IF pk \notin DOMAIN books
       THEN /\ resp' = NotFound
            /\ Unchanged_db
       ELSE IF ~is_valid(data, method = "PATCH")
       THEN /\ resp' = Response(400, serializer_errors(data, method = "PATCH"))
            /\ Unchanged_db
       ELSE /\ books' = [books EXCEPT ![pk] = updated_row(books[pk], data)]
            /\ resp' = Response(200, BookData(pk, books'[pk]))
            /\ UNCHANGED <<authors, next_book_id, current_year, social_vars, account_vars, site_vars>>

\* mutant of BookDeleteView: the soft delete, which keeps the row
BookDeleteView_soft(user, pk) ==
    /\ req' = [op |-> "destroy", method |-> "DELETE", user |-> user, pk |-> pk]
    /\ IF ~check_permissions(BookDeleteView_permission_classes, "DELETE", user)
       THEN resp' \in BookDeniedResponses
       ELSE IF pk \notin DOMAIN books
       THEN resp' = NotFound
       ELSE resp' = Response(204, [detail |-> "no_content"])
    /\ Unchanged_db

\* DELETE /books/<pk>/delete/
BookDeleteView(user, pk) ==
    /\ req' = [op |-> "destroy", method |-> "DELETE", user |-> user, pk |-> pk]
    /\ IF ~check_permissions(BookDeleteView_permission_classes, "DELETE", user)
       THEN /\ resp' \in BookDeniedResponses
            /\ Unchanged_db
       ELSE IF pk \notin DOMAIN books
       THEN /\ resp' = NotFound
            /\ Unchanged_db
       ELSE /\ books' = Without(books, pk)
            /\ resp' = Response(204, [detail |-> "no_content"])
            /\ UNCHANGED <<authors, next_book_id, current_year, social_vars, account_vars, site_vars>>

\* the response is delivered; the request is over
Close ==
    /\ ~Idle
    /\ req' = NoReq
    /\ resp' = NoResp
    /\ Unchanged_db

\* the server's calendar year advances
NewYear ==
    /\ Idle
    /\ \E i \in 1..(Len(ClockYears) - 1) :
          /\ current_year = ClockYears[i]
          /\ current_year' = ClockYears[i + 1]
    /\ UNCHANGED <<authors, books, next_book_id, social_vars, account_vars, site_vars, req, resp>>

----------------------------------------------------------------------------
(* The Author and Book models through the ORM, and AuthorSerializer *)

\* authors the database hands out primary keys for
MaxAuthors == 3

\* names that authors are created with
AuthorNames == {"J.K. Rowling", "J.R.R. Tolkien"}

\* the rows that Book.objects.create is called with: the ORM runs no
\* serializer validator, so any year is stored
OrmBookRows ==
    [title : {<<"a">>}, publication_year : {ClockYears[1], ClockYears[1] + 2},
     author : AuthorIds]

\* what a call of the ORM or of a serializer returns to its caller (a call
\* in a test or a script: there is no HTTP status)
Returned(value) == [status |-> 0, data |-> value]

\* Author.objects.create(name=...)
Author_objects_create(name) ==
    /\ next_author_id <= MaxAuthors
    /\ req' = [op |-> "Author.objects.create", name |-> name]
    /\ authors' = authors \cup {next_author_id}
    /\ author_name' = With(author_name, next_author_id, name)
    /\ next_author_id' = next_author_id + 1
    /\ resp' = Returned([id |-> next_author_id, name |-> name])
    /\ UNCHANGED <<books, next_book_id, current_year, social_vars, account_vars,
                   auth_users, userprofiles, app_posts, next_app_post_id, like_requests>>

\* Book.objects.create(title=..., publication_year=..., author=<instance>)
Book_objects_create(row) ==
    /\ next_book_id <= MaxBooks
    /\ row.author \in authors
    /\ req' = [op |-> "Book.objects.create", data |-> row]
    /\ books' = With(books, next_book_id, row)
    /\ next_book_id' = next_book_id + 1
    /\ resp' = Returned([id |-> next_book_id])
    /\ UNCHANGED <<authors, current_year, social_vars, account_vars, site_vars>>

\* mutant of books_of: every book, whoever its author is
books_of_any(pk) == DOMAIN books

\* the related manager author.books (related_name='books'): the books whose
\* author is pk; on_delete=CASCADE deletes them with the author
books_of(pk) == {b \in DOMAIN books : books[b].author = pk}

\* mutant of Author_delete: on_delete=DO_NOTHING, the books stay
Author_delete_do_nothing(pk) ==
    /\ pk \in authors
    /\ req' = [op |-> "Author.delete", pk |-> pk]
    /\ authors' = authors \ {pk}
    /\ author_name' = Without(author_name, pk)
    /\ resp' = Returned([deleted |-> 1])
    /\ UNCHANGED <<books, next_author_id, next_book_id, current_year, social_vars,
                   account_vars, auth_users, userprofiles, app_posts, next_app_post_id, like_requests>>

\* author.delete(): the collector deletes the books that reference the author
\* (on_delete=models.CASCADE), then the author; it returns the number of rows
Author_delete(pk) ==
    /\ pk \in authors
    /\ req' = [op |-> "Author.delete", pk |-> pk]
    /\ books' = [b \in DOMAIN books \ books_of(pk) |-> books[b]]
    /\ authors' = authors \ {pk}
    /\ author_name' = Without(author_name, pk)
    /\ resp' = Returned([deleted |-> Cardinality(books_of(pk)) + 1])
    /\ UNCHANGED <<next_author_id, next_book_id, current_year, social_vars,
                   account_vars, auth_users, userprofiles, app_posts, next_app_post_id, like_requests>>

\* what is written through AuthorSerializer: a name, with or without a
\* list of book data
AuthorBodies ==
    { [name |-> n] : n \in AuthorNames }
    \cup { [name |-> n, books |-> <<BodyOf(Fields, <<"a">>, ClockYears[1], 1)>>]
           : n \in AuthorNames }

\* AuthorSerializer(author).data: id, name and the nested books, author.books
\* in the order of Book.Meta.ordering, each as BookSerializer gives it
AuthorSerializer_data(pk) ==
    /\ pk \in authors
    /\ req' = [op |-> "AuthorSerializer.data", pk |-> pk]
    /\ \E s \in order_by_publication_year_desc(books_of(pk)) :
          /\ \A i \in 1..(Len(s) - 1) :
                books[s[i]].publication_year = books[s[i + 1]].publication_year
                => ~str_lt(books[s[i + 1]].title, books[s[i]].title)
          /\ resp' = Returned([id |-> pk, name |-> author_name[pk],
                               books |-> [i \in 1..Len(s) |->
                                            BookData(s[i], books[s[i]])]])
    /\ Unchanged_db

\* AuthorSerializer(data=...).is_valid() and save(): books is read_only and
\* no part of the validated data; the author is created from the name
AuthorSerializer_save(data) ==
    /\ next_author_id <= MaxAuthors
    /\ req' = [op |-> "AuthorSerializer.save", data |-> data]
    /\ authors' = authors \cup {next_author_id}
    /\ author_name' = With(author_name, next_author_id, data.name)
    /\ next_author_id' = next_author_id + 1
    /\ resp' = Returned([id |-> next_author_id, name |-> data.name, books |-> <<>>])
    /\ UNCHANGED <<books, next_book_id, current_year, social_vars, account_vars,
                   auth_users, userprofiles, app_posts, next_app_post_id,
                   like_requests>>

----------------------------------------------------------------------------
(* The URL configuration of advanced-api-project (api/urls.py) *)

HttpMethods == {"GET", "POST", "PUT", "PATCH", "DELETE"}

\* bodies sent to the two routes: complete and partial, valid and invalid
UrlBodies ==
    { BodyOf(F, <<"a">>, y, a) : F \in {Fields, {"title"}},
                                 y \in {ClockYears[1], ClockYears[1] + 2},
                                 a \in {1, 3} }

\* APIView.http_method_not_allowed: the view class has no handler for the method
method_not_allowed == Response(405, [detail |-> "method_not_allowed"])

\* path('books/', BookListView.as_view(), name='book-list'): a ListAPIView
\* has the handler get only; dispatch checks the permissions, then finds
\* no handler for the other methods
book_list(method, user, data) ==
    IF method = "GET"
    THEN BookListView(user)
    ELSE /\ req' = [op |-> "book-list", method |-> method, user |-> user,
                    data |-> data]
         /\ IF ~check_permissions(BookListView_permission_classes, method, user)
            THEN resp' \in BookDeniedResponses
            ELSE resp' = method_not_allowed
         /\ Unchanged_db

\* path('books/<int:pk>/', BookDetailView.as_view(), name='book-detail'): a
\* RetrieveAPIView has the handler get only
book_detail(method, user, pk, data) ==
    IF method = "GET"
    THEN BookDetailView(user, pk)
    ELSE /\ req' = [op |-> "book-detail", method |-> method, user |-> user,
                    pk |-> pk, data |-> data]
         /\ IF ~check_permissions(BookDetailView_permission_classes, method, user)
            THEN resp' \in BookDeniedResponses
            ELSE resp' = method_not_allowed
         /\ Unchanged_db

----------------------------------------------------------------------------
(* relationship_app: users, profiles and the post_save signal handlers *)

\* ROLE_CHOICES
Roles == {"Admin", "Librarian", "Member"}

\* mutant of create_user_profile: the profile is created on every save
create_user_profile_always(table, instance, created) ==
    Append(table, [user |-> instance, role |-> "Member"])

\* create_user_profile, receiver of post_save: if created, a UserProfile of
\* the user is created; role takes its default, 'Member'
create_user_profile(table, instance, created) ==
    IF created
    THEN Append(table, [user |-> instance, role |-> "Member"])
    ELSE table

\* save_user_profile, receiver of post_save: if the user has a profile, it
\* is loaded and saved as it is
save_user_profile(table, instance) ==
    IF \E i \in 1..Len(table) : table[i].user = instance
    THEN LET i == CHOOSE j \in 1..Len(table) : table[j].user = instance
         IN [table EXCEPT ![i] = [user |-> table[i].user, role |-> table[i].role]]
    ELSE table

\* user.save() of a user loaded from the database or new (User.objects
\* .create_user): the row is inserted or updated, post_save is sent with
\* created, and its two receivers run in the order of their connection
User_save(username) ==
    LET created == username \notin auth_users
    IN /\ req' = [op |-> "User.save", username |-> username, created |-> created]
       /\ auth_users' = auth_users \cup {username}
       /\ userprofiles' =
            save_user_profile(create_user_profile(userprofiles, username, created),
                              username)
       /\ resp' = Returned([username |-> username])
       /\ UNCHANGED <<book_vars, social_vars, account_vars, next_author_id,
                      author_name, app_posts, next_app_post_id, like_requests>>

\* a profile's role is edited (profile.role = role; profile.save())
UserProfile_save(username, role) ==
    /\ \E i \in 1..Len(userprofiles) : userprofiles[i].user = username
    /\ req' = [op |-> "UserProfile.save", username |-> username, role |-> role]
    /\ userprofiles' =
         [i \in 1..Len(userprofiles) |->
            IF userprofiles[i].user = username
            THEN [userprofiles[i] EXCEPT !.role = role]
            ELSE userprofiles[i]]
    /\ resp' = Returned([username |-> username])
    /\ UNCHANGED <<book_vars, social_vars, account_vars, next_author_id,
                   author_name, auth_users, app_posts, next_app_post_id,
                   like_requests>>

----------------------------------------------------------------------------
(* advanced_features_and_security: the permission-gated post views of app *)

\* posts the database hands out primary keys for
MaxAppPosts == 2

\* Post.Meta.permissions, as the decorators name them
AppPermissions == {"app.can_view", "app.can_create", "app.can_edit", "app.can_delete"}

\* what permission_required(perm, raise_exception=True) answers a requester
\* for whom user.has_perm(perm) is false: PermissionDenied
Forbidden == Response(403, [detail |-> "forbidden"])

\* view_posts: the list of the posts.  A requester is given by the set of
\* permissions that user.has_perm grants them (none for an anonymous one).
view_posts(perms) ==
    /\ req' = [op |-> "view_posts", method |-> "GET", perms |-> perms]
    /\ IF "app.can_view" \notin perms
       THEN resp' = Forbidden
       ELSE resp' = Response(200, [posts |-> app_posts])
    /\ Unchanged_db

\* create_post: a POST (with the form's title and content) creates the post
\* and redirects; any other method renders the form
create_post(perms, method, data) ==
    /\ req' = [op |-> "create_post", method |-> method, perms |-> perms,
               data |-> data]
    /\ IF "app.can_create" \notin perms
       THEN /\ resp' = Forbidden
            /\ Unchanged_db
       ELSE IF method = "POST"
       THEN /\ next_app_post_id <= MaxAppPosts
            /\ app_posts' = With(app_posts, next_app_post_id,
                                 [title |-> data.title, content |-> data.content])
            /\ next_app_post_id' = next_app_post_id + 1
            /\ resp' = Response(302, [location |-> "view_posts"])
            /\ UNCHANGED <<book_vars, social_vars, account_vars, next_author_id,
                           author_name, auth_users, userprofiles, like_requests>>
       ELSE /\ resp' = Response(200, [template |-> "create_post.html"])
            /\ Unchanged_db

\* edit_post: 404 for a missing post; a POST overwrites title and content
\* and redirects; any other method renders the form
edit_post(perms, method, post_id, data) ==
    /\ req' = [op |-> "edit_post", method |-> method, perms |-> perms,
               post_id |-> post_id, data |-> data]
    /\ IF "app.can_edit" \notin perms
       THEN /\ resp' = Forbidden
            /\ Unchanged_db
       ELSE IF post_id \notin DOMAIN app_posts
       THEN /\ resp' = NotFound
            /\ Unchanged_db
       ELSE IF method = "POST"
       THEN /\ app_posts' = [app_posts EXCEPT ![post_id] =
                               [title |-> data.title, content |-> data.content]]
            /\ resp' = Response(302, [location |-> "view_posts"])
            /\ UNCHANGED <<book_vars, social_vars, account_vars, next_author_id,
                           author_name, auth_users, userprofiles, next_app_post_id,
                           like_requests>>
       ELSE /\ resp' = Response(200, [template |-> "edit_post.html"])
            /\ Unchanged_db

\* mutant of delete_post: the decorator names the permission to edit
delete_post_can_edit(perms, method, post_id) ==
    /\ req' = [op |-> "delete_post", method |-> method, perms |-> perms,
               post_id |-> post_id]
    /\ IF "app.can_edit" \notin perms
       THEN /\ resp' = Forbidden
            /\ Unchanged_db
       ELSE IF post_id \notin DOMAIN app_posts
       THEN /\ resp' = NotFound
            /\ Unchanged_db
       ELSE /\ app_posts' = Without(app_posts, post_id)
            /\ resp' = Response(302, [location |-> "view_posts"])
            /\ UNCHANGED <<book_vars, social_vars, account_vars, next_author_id,
                           author_name, auth_users, userprofiles, next_app_post_id,
                           like_requests>>

\* delete_post: 404 for a missing post; the post is deleted, whatever the
\* method of the request, and the response redirects
delete_post(perms, method, post_id) ==
    /\ req' = [op |-> "delete_post", method |-> method, perms |-> perms,
               post_id |-> post_id]
    /\ IF "app.can_delete" \notin perms
       THEN /\ resp' = Forbidden
            /\ Unchanged_db
       ELSE IF post_id \notin DOMAIN app_posts
       THEN /\ resp' = NotFound
            /\ Unchanged_db
       ELSE /\ app_posts' = Without(app_posts, post_id)
            /\ resp' = Response(302, [location |-> "view_posts"])
            /\ UNCHANGED <<book_vars, social_vars, account_vars, next_author_id,
                           author_name, auth_users, userprofiles, next_app_post_id,
                           like_requests>>

----------------------------------------------------------------------------
(* social_media_api: users, permissions and input sets *)

\* posts the database hands out primary keys for, where posts are edited,
\* commented and liked
MaxPosts == 1

\* comments the database hands out primary keys for
MaxComments == 1

\* rows the Notification table holds
MaxNotifications == 2

\* posts the database hands out primary keys for, where feeds are read
MaxFeedPosts == 3

\* the last instant of the social-media server's clock
MaxTime == 2

\* the registered users, and request.user of a request without credentials
Users == {"u1", "u2"}
Requesters == Users \cup {Anonymous}

PostTitles == {"t1", "t2"}
PostContents == {"c1"}
CommentContents == {"k1", "k2"}

PostFields == {"title", "content"}
CommentFields == {"post", "content"}

PostBodyOf(F, t, c) == [f \in F |-> IF f = "title" THEN t ELSE c]

PostBodies ==
    UNION { { PostBodyOf(F, t, c) : t \in PostTitles, c \in PostContents }
            : F \in SUBSET PostFields }

CommentBodyOf(F, p, c) == [f \in F |-> IF f = "post" THEN p ELSE c]

CommentBodies(ids) ==
    UNION { { CommentBodyOf(F, p, c) : p \in ids, c \in CommentContents }
            : F \in SUBSET CommentFields }

\* a request body that names an author, besides its other fields
WithAuthor(data, a) ==
    [f \in DOMAIN data \cup {"author"} |-> IF f = "author" THEN a ELSE data[f]]

\* mutant of PostViewSet.permission_classes: the author check is left out
PostViewSet_permission_classes_no_author == <<"IsAuthenticatedOrReadOnly">>

PostViewSet_permission_classes == <<"IsAuthenticatedOrReadOnly", "IsAuthorOrReadOnly">>

CommentViewSet_permission_classes == <<"IsAuthenticatedOrReadOnly", "IsAuthorOrReadOnly">>

\* a denied request: not authenticated (token authentication answers 401),
\* or authenticated and forbidden
permission_denied(user) ==
    IF is_authenticated(user)
    THEN Response(403, [detail |-> "permission_denied"])
    ELSE Response(401, [detail |-> "not_authenticated"])

\* PostSerializer: title and content are required, the rest is read-only
post_errors(data, partial) ==
    LET bad == IF partial THEN {} ELSE PostFields \ DOMAIN data
    IN  [f \in bad |-> "required"]

\* CommentSerializer: post (an existing post) and content are required
comment_errors(data, partial) ==
    LET missing == IF partial THEN {} ELSE CommentFields \ DOMAIN data
        unknown == IF "post" \in DOMAIN data /\ data["post"] \notin DOMAIN posts
                   THEN {"post"} ELSE {}
    IN  [f \in missing \cup unknown |->
            IF f \in missing THEN "required" ELSE "does_not_exist"]

PostData(id, row) ==
    [id |-> id, author |-> row.author, title |-> row.title,
     content |-> row.content, created_at |-> row.created_at]

CommentData(id, row) ==
    [id |-> id, post |-> row.post, author |-> row.author, content |-> row.content]

----------------------------------------------------------------------------
(* social_media_api: PostViewSet and CommentViewSet *)

\* mutant of PostViewSet_create: the author is taken from the body when
\* the body names one
PostViewSet_create_author_from_body(user, data) ==
    /\ req' = [op |-> "post_create", user |-> user, data |-> data]
    /\ IF ~check_permissions(PostViewSet_permission_classes, "POST", user)
       THEN /\ resp' = permission_denied(user)
            /\ Unchanged_db
       ELSE IF DOMAIN post_errors(data, FALSE) # {}
       THEN /\ resp' = Response(400, post_errors(data, FALSE))
            /\ Unchanged_db
       ELSE /\ posts' = With(posts, next_post_id,
                             [author |-> IF "author" \in DOMAIN data
                                         THEN data["author"] ELSE user,
                              title |-> data["title"],
                              content |-> data["content"], created_at |-> now])
            /\ next_post_id' = next_post_id + 1
            /\ resp' = Response(201, PostData(next_post_id, posts'[next_post_id]))
            /\ UNCHANGED <<book_vars, account_vars, site_vars, comments,
                           next_comment_id, likes, notifications, following, now>>

\* POST /api/posts/
PostViewSet_create(user, data) ==
    /\ req' = [op |-> "post_create", user |-> user, data |-> data]
    /\ IF ~check_permissions(PostViewSet_permission_classes, "POST", user)
       THEN /\ resp' = permission_denied(user)
            /\ Unchanged_db
       ELSE IF DOMAIN post_errors(data, FALSE) # {}
       THEN /\ resp' = Response(400, post_errors(data, FALSE))
            /\ Unchanged_db
       ELSE /\ posts' = With(posts, next_post_id,
                             [author |-> user, title |-> data["title"],
                              content |-> data["content"], created_at |-> now])
            /\ next_post_id' = next_post_id + 1
            /\ resp' = Response(201, PostData(next_post_id, posts'[next_post_id]))
            /\ UNCHANGED <<book_vars, account_vars, site_vars, comments, next_comment_id, likes,
                           notifications, following, now>>

\* PUT or PATCH /api/posts/<pk>/
PostViewSet_update(method, user, pk, data) ==
    /\ req' = [op |-> "post_update", method |-> method, user |-> user,
               pk |-> pk, data |-> data]
    /\ IF ~check_permissions(PostViewSet_permission_classes, method, user)
       THEN /\ resp' = permission_denied(user)
            /\ Unchanged_db
       ELSE IF pk \notin DOMAIN posts
       THEN /\ resp' = NotFound
            /\ Unchanged_db
       ELSE IF ~check_object_permissions(PostViewSet_permission_classes,
                                         method, user, posts[pk])
       THEN /\ resp' = permission_denied(user)
            /\ Unchanged_db
       ELSE IF DOMAIN post_errors(data, method = "PATCH") # {}
       THEN /\ resp' = Response(400, post_errors(data, method = "PATCH"))
            /\ Unchanged_db
       ELSE /\ posts' = [posts EXCEPT ![pk] =
                           [f \in DOMAIN posts[pk] |->
                              IF f \in DOMAIN data THEN data[f] ELSE posts[pk][f]]]
            /\ resp' = Response(200, PostData(pk, posts'[pk]))
            /\ UNCHANGED <<book_vars, account_vars, site_vars, next_post_id, comments, next_comment_id,
                           likes, notifications, following, now>>

\* DELETE /api/posts/<pk>/ ; the post's comments and likes go with it
PostViewSet_destroy(user, pk) ==
    /\ req' = [op |-> "post_destroy", method |-> "DELETE", user |-> user, pk |-> pk]
    /\ IF ~check_permissions(PostViewSet_permission_classes, "DELETE", user)
       THEN /\ resp' = permission_denied(user)
            /\ Unchanged_db
       ELSE IF pk \notin DOMAIN posts
       THEN /\ resp' = NotFound
            /\ Unchanged_db
       ELSE IF ~check_object_permissions(PostViewSet_permission_classes,
                                         "DELETE", user, posts[pk])
       THEN /\ resp' = permission_denied(user)
            /\ Unchanged_db
       ELSE /\ posts' = Without(posts, pk)
            /\ comments' = [id \in {c \in DOMAIN comments : comments[c].post # pk}
                              |-> comments[id]]
            /\ likes' = SelectSeq(likes, LAMBDA l : l.post # pk)
            /\ resp' = Response(204, [detail |-> "no_content"])
            /\ UNCHANGED <<book_vars, account_vars, site_vars, next_post_id, next_comment_id,
                           notifications, following, now>>

\* POST /api/comments/
CommentViewSet_create(user, data) ==
    /\ req' = [op |-> "comment_create", user |-> user, data |-> data]
    /\ IF ~check_permissions(CommentViewSet_permission_classes, "POST", user)
       THEN /\ resp' = permission_denied(user)
            /\ Unchanged_db
       ELSE IF DOMAIN comment_errors(data, FALSE) # {}
       THEN /\ resp' = Response(400, comment_errors(data, FALSE))
            /\ Unchanged_db
       ELSE /\ comments' = With(comments, next_comment_id,
                                [post |-> data["post"], author |-> user,
                                 content |-> data["content"]])
            /\ next_comment_id' = next_comment_id + 1
            /\ resp' = Response(201, CommentData(next_comment_id,
                                                 comments'[next_comment_id]))
            /\ UNCHANGED <<book_vars, account_vars, site_vars, posts, next_post_id, likes,
                           notifications, following, now>>

\* PUT or PATCH /api/comments/<pk>/
CommentViewSet_update(method, user, pk, data) ==
    /\ req' = [op |-> "comment_update", method |-> method, user |-> user,
               pk |-> pk, data |-> data]
    /\ IF ~check_permissions(CommentViewSet_permission_classes, method, user)
       THEN /\ resp' = permission_denied(user)
            /\ Unchanged_db
       ELSE IF pk \notin DOMAIN comments
       THEN /\ resp' = NotFound
            /\ Unchanged_db
       ELSE IF ~check_object_permissions(CommentViewSet_permission_classes,
                                         method, user, comments[pk])
       THEN /\ resp' = permission_denied(user)
            /\ Unchanged_db
       ELSE IF DOMAIN comment_errors(data, method = "PATCH") # {}
       THEN /\ resp' = Response(400, comment_errors(data, method = "PATCH"))
            /\ Unchanged_db
       ELSE /\ comments' = [comments EXCEPT ![pk] =
                              [f \in DOMAIN comments[pk] |->
                                 IF f \in DOMAIN data THEN data[f]
                                 ELSE comments[pk][f]]]
            /\ resp' = Response(200, CommentData(pk, comments'[pk]))
            /\ UNCHANGED <<book_vars, account_vars, site_vars, posts, next_post_id, next_comment_id,
                           likes, notifications, following, now>>

\* DELETE /api/comments/<pk>/
CommentViewSet_destroy(user, pk) ==
    /\ req' = [op |-> "comment_destroy", method |-> "DELETE", user |-> user,
               pk |-> pk]
    /\ IF ~check_permissions(CommentViewSet_permission_classes, "DELETE", user)
       THEN /\ resp' = permission_denied(user)
            /\ Unchanged_db
       ELSE IF pk \notin DOMAIN comments
       THEN /\ resp' = NotFound
            /\ Unchanged_db
       ELSE IF ~check_object_permissions(CommentViewSet_permission_classes,
                                         "DELETE", user, comments[pk])
       THEN /\ resp' = permission_denied(user)
            /\ Unchanged_db
       ELSE /\ comments' = Without(comments, pk)
            /\ resp' = Response(204, [detail |-> "no_content"])
            /\ UNCHANGED <<book_vars, account_vars, site_vars, posts, next_post_id, next_comment_id,
                           likes, notifications, following, now>>

----------------------------------------------------------------------------
(* social_media_api: likes, follows and the feed *)

PostLiked == "Post liked"
AlreadyLiked == "You checked this post already"
PostUnliked == "Post unliked"
NotLiked == "You have not liked this post"

\* the rows of Like.objects.filter(user=user, post=pk)
LikeRows(user, pk) == {i \in 1..Len(likes) : likes[i] = [user |-> user, post |-> pk]}

\* mutant of get_or_create: a plain create
always_creates(user, pk) == TRUE

\* Like.objects.get_or_create(user=user, post=post): whether a row is created
get_or_create_creates(user, pk) == LikeRows(user, pk) = {}

\* mutant of notifies: the author is notified of their own like too
notifies_always(user, pk) == TRUE

\* mutant of notifies: one notification at most for an (actor, post)
notifies_once(user, pk) ==
    /\ posts[pk].author # user
    /\ ~\E i \in 1..Len(notifications) :
           notifications[i].actor = user /\ notifications[i].target = pk

\* the notification of a like: none when the post's author likes it
notifies(user, pk) == posts[pk].author # user

\* POST /api/posts/<pk>/like/
LikePostView(user, pk) ==
    /\ req' = [op |-> "like", user |-> user, pk |-> pk]
    /\ IF ~has_permission("IsAuthenticated", "POST", user)
       THEN /\ resp' = permission_denied(user)
            /\ Unchanged_db
       ELSE IF pk \notin DOMAIN posts
       THEN /\ resp' = NotFound
            /\ Unchanged_db
       ELSE IF get_or_create_creates(user, pk)
       THEN /\ likes' = Append(likes, [user |-> user, post |-> pk])
            /\ IF notifies(user, pk)
               THEN /\ Len(notifications) < MaxNotifications
                    /\ notifications' =
                         Append(notifications,
                                [recipient |-> posts[pk].author, actor |-> user,
                                 verb |-> "liked your post", target |-> pk])
               ELSE UNCHANGED notifications
            /\ resp' = Response(200, [message |-> PostLiked])
            /\ UNCHANGED <<book_vars, account_vars, site_vars, posts, next_post_id, comments,
                           next_comment_id, following, now>>
       ELSE /\ resp' = Response(400, [message |-> AlreadyLiked])
            /\ Unchanged_db

\* mutant of UnlikePostView: every Like row of the post is deleted
UnlikePostView_all(user, pk) ==
    /\ req' = [op |-> "unlike", user |-> user, pk |-> pk]
    /\ IF ~has_permission("IsAuthenticated", "POST", user)
       THEN /\ resp' = permission_denied(user)
            /\ Unchanged_db
       ELSE IF pk \notin DOMAIN posts
       THEN /\ resp' = NotFound
            /\ Unchanged_db
       ELSE IF LikeRows(user, pk) # {}
       THEN /\ likes' = SelectSeq(likes, LAMBDA l : l.post # pk)
            /\ resp' = Response(200, [message |-> PostUnliked])
            /\ UNCHANGED <<book_vars, account_vars, site_vars, posts, next_post_id, comments,
                           next_comment_id, notifications, following, now>>
       ELSE /\ resp' = Response(400, [message |-> NotLiked])
            /\ Unchanged_db

\* POST /api/posts/<pk>/unlike/
UnlikePostView(user, pk) ==
    /\ req' = [op |-> "unlike", user |-> user, pk |-> pk]
    /\ IF ~has_permission("IsAuthenticated", "POST", user)
       THEN /\ resp' = permission_denied(user)
            /\ Unchanged_db
       ELSE IF pk \notin DOMAIN posts
       THEN /\ resp' = NotFound
            /\ Unchanged_db
       ELSE IF LikeRows(user, pk) # {}
       THEN /\ likes' = SelectSeq(likes, LAMBDA l : l # [user |-> user, post |-> pk])
            /\ resp' = Response(200, [message |-> PostUnliked])
            /\ UNCHANGED <<book_vars, account_vars, site_vars, posts, next_post_id, comments,
                           next_comment_id, notifications, following, now>>
       ELSE /\ resp' = Response(400, [message |-> NotLiked])
            /\ Unchanged_db

\* POST /accounts/follow/<target>/ : request.user.following.add(target)
FollowUserView(user, target) ==
    /\ req' = [op |-> "follow", user |-> user, target |-> target]
    /\ IF ~has_permission("IsAuthenticated", "POST", user)
       THEN /\ resp' = permission_denied(user)
            /\ Unchanged_db
       ELSE /\ following' = following \cup {<<user, target>>}
            /\ resp' = Response(200, [message |-> "followed"])
            /\ UNCHANGED <<book_vars, account_vars, site_vars, posts, next_post_id, comments,
                           next_comment_id, likes, notifications, now>>

\* POST /accounts/unfollow/<target>/ : request.user.following.remove(target)
UnfollowUserView(user, target) ==
    /\ req' = [op |-> "unfollow", user |-> user, target |-> target]
    /\ IF ~has_permission("IsAuthenticated", "POST", user)
       THEN /\ resp' = permission_denied(user)
            /\ Unchanged_db
       ELSE /\ following' = following \ {<<user, target>>}
            /\ resp' = Response(200, [message |-> "unfollowed"])
            /\ UNCHANGED <<book_vars, account_vars, site_vars, posts, next_post_id, comments,
                           next_comment_id, likes, notifications, now>>

\* mutant of following_users: the reverse relation, user.followers.all()
followers_of(user) == {v \in Users : <<v, user>> \in following}

\* user.following.all()
following_users(user) == {v \in Users : <<user, v>> \in following}

\* Post.objects.filter(author__in=users): the primary keys
filter_author_in(users) == {id \in DOMAIN posts : posts[id].author \in users}

\* .order_by('-created_at'): the orders the database may return the rows in
order_by_created_at_desc(ids) ==
    { s \in [1..Cardinality(ids) -> ids] :
        /\ \A i, j \in 1..Cardinality(ids) : i # j => s[i] # s[j]
        /\ \A i \in 1..(Cardinality(ids) - 1) :
              posts[s[i]].created_at >= posts[s[i + 1]].created_at }

\* FeedView.get_queryset
FeedView_get_queryset(user) ==
    order_by_created_at_desc(filter_author_in(following_users(user)))

\* GET /api/feed/
FeedView(user) ==
    /\ req' = [op |-> "feed", user |-> user]
    /\ IF ~has_permission("IsAuthenticated", "GET", user)
       THEN resp' = permission_denied(user)
       ELSE \E s \in FeedView_get_queryset(user) :
               resp' = Response(200, [i \in 1..Len(s) |-> PostData(s[i], posts[s[i]])])
    /\ Unchanged_db

\* time passes on the social-media server
Tick ==
    /\ Idle
    /\ now < MaxTime
    /\ now' = now + 1
    /\ UNCHANGED <<book_vars, account_vars, site_vars, posts, next_post_id, comments, next_comment_id,
                   likes, notifications, following, req, resp>>

----------------------------------------------------------------------------
(* social_media_api: like requests handled at the same time *)

\* requests that the server's workers handle at the same time
MaxWorkers == 2

Workers == 1..MaxWorkers

\* a worker that handles no like request
NoLike == [pc |-> "idle", user |-> Anonymous, pk |-> 0, post_author |-> Anonymous,
           created |-> FALSE, integrity_error |-> FALSE, status |-> 0]

\* mutant of unique_user_post: the Like table without the constraint
unique_user_post_absent(user, pk) == FALSE

\* the unique constraint of Like on (user, post): whether the INSERT of
\* another row for the pair raises IntegrityError
unique_user_post(user, pk) == LikeRows(user, pk) # {}

\* LikePostView.post up to get_object_or_404: authentication, permission,
\* the post is loaded
like_begin(w, user, pk) ==
    /\ like_requests[w].pc = "idle"
    /\ like_requests' =
         [like_requests EXCEPT ![w] =
            IF ~has_permission("IsAuthenticated", "POST", user)
            THEN [@ EXCEPT !.pc = "done", !.user = user, !.pk = pk,
                           !.status = permission_denied(user).status]
            ELSE IF pk \notin DOMAIN posts
            THEN [@ EXCEPT !.pc = "done", !.user = user, !.pk = pk,
                           !.status = NotFound.status]
            ELSE [@ EXCEPT !.pc = "get", !.user = user, !.pk = pk,
                           !.post_author = posts[pk].author]]
    /\ UNCHANGED <<book_vars, social_vars, account_vars, next_author_id,
                   author_name, auth_users, userprofiles, app_posts, next_app_post_id, req, resp>>

\* get_or_create, first statement: SELECT the row of (user, post); found,
\* created is False and the response is 400
like_get(w) ==
    /\ like_requests[w].pc = "get"
    /\ like_requests' =
         [like_requests EXCEPT ![w] =
            IF LikeRows(@.user, @.pk) # {}
            THEN [@ EXCEPT !.pc = "done", !.status = 400]
            ELSE [@ EXCEPT !.pc = "insert"]]
    /\ UNCHANGED <<book_vars, social_vars, account_vars, next_author_id,
                   author_name, auth_users, userprofiles, app_posts, next_app_post_id, req, resp>>

\* get_or_create, second statement: INSERT the row; on IntegrityError the
\* row that another request has inserted is fetched and created is False
like_insert(w) ==
    /\ like_requests[w].pc = "insert"
    /\ IF unique_user_post(like_requests[w].user, like_requests[w].pk)
       THEN /\ like_requests' =
                 [like_requests EXCEPT ![w] =
                    [@ EXCEPT !.pc = "done", !.integrity_error = TRUE,
                              !.status = 400]]
            /\ UNCHANGED likes
       ELSE /\ likes' = Append(likes, [user |-> like_requests[w].user,
                                       post |-> like_requests[w].pk])
            /\ like_requests' =
                 [like_requests EXCEPT ![w] =
                    [@ EXCEPT !.pc = "notify", !.created = TRUE]]
    /\ UNCHANGED <<book_vars, account_vars, next_author_id, author_name,
                   auth_users, userprofiles, app_posts, next_app_post_id, posts, next_post_id, comments, next_comment_id, notifications,
                   following, now, req, resp>>

\* if created: the notification, unless the author likes their own post,
\* and the response 'Post liked'
like_notify(w) ==
    /\ like_requests[w].pc = "notify"
    /\ IF like_requests[w].post_author # like_requests[w].user
       THEN /\ Len(notifications) < MaxNotifications
            /\ notifications' =
                 Append(notifications,
                        [recipient |-> like_requests[w].post_author,
                         actor |-> like_requests[w].user,
                         verb |-> "liked your post",
                         target |-> like_requests[w].pk])
       ELSE UNCHANGED notifications
    /\ like_requests' =
         [like_requests EXCEPT ![w] = [@ EXCEPT !.pc = "done", !.status = 200]]
    /\ UNCHANGED <<book_vars, account_vars, next_author_id, author_name,
                   auth_users, userprofiles, app_posts, next_app_post_id, posts, next_post_id, comments, next_comment_id, likes,
                   following, now, req, resp>>

----------------------------------------------------------------------------
(* social_media_api: accounts *)

\* usernames, passwords and bios that requests carry; the users of Users
\* exist from the start, created with create_user and without a token
Usernames == Users \cup {"u3"}
Passwords == {"p1", "p2"}
Bios == {"b1", "b2"}

InitialPassword(u) == IF u = "u1" THEN "p1" ELSE "p2"

\* the keys that Token.generate_key returns, in the order it returns them
TokenKeys == <<"k1", "k2", "k3">>

\* the Authorization header of a request: none, the key of no token, a key
NoToken == ""
AuthHeaders == {NoToken, "bad"} \cup {TokenKeys[i] : i \in 1..Len(TokenKeys)}

RegisterFields == {"username", "password", "bio"}
LoginFields == {"username", "password"}

AccountBodyOf(F, u, p, b) ==
    [f \in F |-> CASE f = "username" -> u
                   [] f = "password" -> p
                   [] f = "bio" -> b]

RegisterBodies ==
    UNION { { AccountBodyOf(F, u, p, b) : u \in Usernames, p \in Passwords, b \in Bios }
            : F \in SUBSET RegisterFields }

LoginBodies ==
    UNION { { AccountBodyOf(F, u, p, "") : u \in Usernames, p \in Passwords }
            : F \in SUBSET LoginFields }

ProfileBodies == { AccountBodyOf(F, "", "", b) : F \in SUBSET {"bio"}, b \in Bios }

\* TokenAuthentication.authenticate: the user of the token of the header,
\* Anonymous without a header, "" for a key of no token (refused with 401)
authenticate(auth) ==
    IF auth = NoToken THEN Anonymous
    ELSE IF \E u \in DOMAIN tokens : tokens[u] = auth
    THEN CHOOSE u \in DOMAIN tokens : tokens[u] = auth
    ELSE ""

\* RegisterSerializer.errors: username and password are required, the
\* username is that of no user
register_errors(data) ==
    LET missing == {"username", "password"} \ DOMAIN data
        taken == IF "username" \in DOMAIN data /\ data["username"] \in DOMAIN accounts
                 THEN {"username"} ELSE {}
    IN  [f \in missing \cup taken |-> IF f \in missing THEN "required" ELSE "unique"]

\* AuthTokenSerializer.errors: username and password are required and
\* must be those of a user
login_errors(data) ==
    LET missing == LoginFields \ DOMAIN data
    IN  IF missing # {}
        THEN [f \in missing |-> "required"]
        ELSE IF /\ data["username"] \in DOMAIN accounts
                /\ accounts[data["username"]].password = data["password"]
        THEN <<>>
        ELSE [f \in {"non_field_errors"} |-> "authorization"]

\* UserSerializer(user).data
UserData(u) == [username |-> u, bio |-> accounts[u].bio]

\* UserSerializer(user).data of the user table after the step
UserData_saved(u) == [username |-> u, bio |-> accounts'[u].bio]

\* mutant of RegisterView: the token returned is the first of the table
RegisterView_first_token(data) ==
    /\ req' = [op |-> "register", method |-> "POST", data |-> data]
    /\ IF DOMAIN register_errors(data) # {}
       THEN /\ resp' = Response(400, register_errors(data))
            /\ Unchanged_db
       ELSE /\ next_token_key <= Len(TokenKeys)
            /\ accounts' = With(accounts, data["username"],
                                [password |-> data["password"],
                                 bio |-> IF "bio" \in DOMAIN data THEN data["bio"] ELSE ""])
            /\ tokens' = With(tokens, data["username"], TokenKeys[next_token_key])
            /\ next_token_key' = next_token_key + 1
            /\ resp' = Response(201,
                    [token |-> tokens'[CHOOSE u \in DOMAIN tokens' : TRUE],
                     user |-> UserData_saved(data["username"])])
            /\ UNCHANGED <<book_vars, social_vars, site_vars>>

\* POST /register/ : RegisterView.create
RegisterView(data) ==
    /\ req' = [op |-> "register", method |-> "POST", data |-> data]
    /\ IF DOMAIN register_errors(data) # {}
       THEN /\ resp' = Response(400, register_errors(data))
            /\ Unchanged_db
       ELSE /\ next_token_key <= Len(TokenKeys)
            /\ accounts' = With(accounts, data["username"],
                                [password |-> data["password"],
                                 bio |-> IF "bio" \in DOMAIN data THEN data["bio"] ELSE ""])
            /\ tokens' = With(tokens, data["username"], TokenKeys[next_token_key])
            /\ next_token_key' = next_token_key + 1
            /\ resp' = Response(201, [token |-> tokens'[data["username"]],
                                      user |-> UserData_saved(data["username"])])
            /\ UNCHANGED <<book_vars, social_vars, site_vars>>

\* mutant of LoginView: Token.objects.get in place of get_or_create, a
\* user without a token refused
LoginView_get(data) ==
    /\ req' = [op |-> "login", method |-> "POST", data |-> data]
    /\ IF DOMAIN login_errors(data) # {}
       THEN resp' = Response(400, login_errors(data))
       ELSE IF data["username"] \in DOMAIN tokens
       THEN resp' = Response(200, [token |-> tokens[data["username"]],
                                   user |-> UserData(data["username"])])
       ELSE resp' = Response(400, [f \in {"non_field_errors"} |-> "authorization"])
    /\ Unchanged_db

\* mutant of LoginView: Token.objects.create in place of get_or_create, a
\* new key at every login
LoginView_create(data) ==
    /\ req' = [op |-> "login", method |-> "POST", data |-> data]
    /\ IF DOMAIN login_errors(data) # {}
       THEN /\ resp' = Response(400, login_errors(data))
            /\ Unchanged_db
       ELSE /\ next_token_key <= Len(TokenKeys)
            /\ tokens' = With(tokens, data["username"], TokenKeys[next_token_key])
            /\ next_token_key' = next_token_key + 1
            /\ resp' = Response(200, [token |-> tokens'[data["username"]],
                                       user |-> UserData(data["username"])])
            /\ UNCHANGED <<book_vars, social_vars, site_vars, accounts>>

\* POST /login/ : LoginView.post
LoginView(data) ==
    /\ req' = [op |-> "login", method |-> "POST", data |-> data]
    /\ IF DOMAIN login_errors(data) # {}
       THEN /\ resp' = Response(400, login_errors(data))
            /\ Unchanged_db
       ELSE IF data["username"] \in DOMAIN tokens
       THEN /\ resp' = Response(200, [token |-> tokens[data["username"]],
                                       user |-> UserData(data["username"])])
            /\ Unchanged_db
       ELSE /\ next_token_key <= Len(TokenKeys)
            /\ tokens' = With(tokens, data["username"], TokenKeys[next_token_key])
            /\ next_token_key' = next_token_key + 1
            /\ resp' = Response(200, [token |-> tokens'[data["username"]],
                                       user |-> UserData(data["username"])])
            /\ UNCHANGED <<book_vars, social_vars, site_vars, accounts>>

\* mutant of ProfileView_get_object: the first user of the table
ProfileView_first_user(user) == CHOOSE u \in DOMAIN accounts : TRUE

\* ProfileView.get_object
ProfileView_get_object(user) == user

\* GET or PATCH /profile/ : ProfileView
ProfileView(method, auth, data) ==
    /\ req' = [op |-> "profile", method |-> method, auth |-> auth, data |-> data]
    /\ IF authenticate(auth) = ""
       THEN /\ resp' = Response(401, [detail |-> "authentication_failed"])
            /\ Unchanged_db
       ELSE IF ~has_permission("IsAuthenticated", method, authenticate(auth))
       THEN /\ resp' = permission_denied(authenticate(auth))
            /\ Unchanged_db
       ELSE LET u == ProfileView_get_object(authenticate(auth))
            IN  IF method = "GET"
                THEN /\ resp' = Response(200, UserData(u))
                     /\ Unchanged_db
                ELSE /\ accounts' =
                          [accounts EXCEPT ![u].bio =
                              IF "bio" \in DOMAIN data THEN data["bio"] ELSE @]
                     /\ resp' = Response(200, UserData_saved(u))
                     /\ UNCHANGED <<book_vars, social_vars, site_vars, tokens, next_token_key>>

----------------------------------------------------------------------------
(* Specifications *)

Init ==
    /\ authors = InitialAuthors
    /\ books = <<>>
    /\ next_book_id = 1
    /\ current_year = ClockYears[1]
    /\ posts = <<>>
    /\ next_post_id = 1
    /\ comments = <<>>
    /\ next_comment_id = 1
    /\ likes = <<>>
    /\ notifications = <<>>
    /\ following = {}
    /\ now = 1
    /\ accounts = [u \in Users |-> [password |-> InitialPassword(u), bio |-> ""]]
    /\ tokens = <<>>
    /\ next_token_key = 1
    /\ next_author_id = Cardinality(InitialAuthors) + 1
    /\ author_name = [a \in InitialAuthors |-> "J.K. Rowling"]
    /\ auth_users = {}
    /\ userprofiles = <<>>
    /\ app_posts = <<>>
    /\ next_app_post_id = 1
    /\ like_requests = [w \in Workers |-> NoLike]
    /\ req = NoReq
    /\ resp = NoResp

\* The Book API. One request at a time: the next is taken when the last is
\* closed.
Next ==
    \/ Idle /\ \E u \in BookRequesters : BookListView(u)
    \/ Idle /\ \E u \in BookRequesters, pk \in BookIds : BookDetailView(u, pk)
    \/ Idle /\ \E u \in BookRequesters, d \in Bodies : BookCreateView(u, d)
    \/ Idle /\ \E m \in {"PUT", "PATCH"}, u \in BookRequesters, pk \in BookIds,
                  d \in Bodies : BookUpdateView(m, u, pk, d)
    \/ Idle /\ \E u \in BookRequesters, pk \in BookIds : BookDeleteView(u, pk)
    \/ Close
    \/ NewYear

Spec == Init /\ [][Next]_vars

\* The creation of books, with bodies of every kind of invalid field.
CreateNext ==
    \/ Idle /\ \E u \in BookRequesters, d \in CreateBodies : BookCreateView(u, d)
    \/ Close

CreateSpec == Init /\ [][CreateNext]_vars

\* The book list with its query parameters.
ListNext ==
    \/ Idle /\ \E d \in ListBodies : BookCreateView("testuser", d)
    \/ Idle /\ \E u \in BookRequesters, p \in ListParams :
                  BookListView_filter_queryset(u, p)
    \/ Close

ListSpec == Init /\ [][ListNext]_vars

\* The posts and comments of the social-media API.
PostIds == 1..(MaxPosts + 1)
CommentIds == 1..(MaxComments + 1)

PostNext ==
    \/ Idle /\ next_post_id <= MaxPosts
            /\ \E u \in Requesters, d \in PostBodies : PostViewSet_create(u, d)
    \/ Idle /\ next_post_id <= MaxPosts
            /\ \E u \in Requesters, d \in PostBodies, a \in Users :
                  PostViewSet_create(u, WithAuthor(d, a))
    \/ Idle /\ \E m \in {"PUT", "PATCH"}, u \in Requesters, pk \in PostIds,
                  d \in PostBodies : PostViewSet_update(m, u, pk, d)
    \/ Idle /\ \E u \in Requesters, pk \in PostIds : PostViewSet_destroy(u, pk)
    \/ Idle /\ next_comment_id <= MaxComments
            /\ \E u \in Requesters, d \in CommentBodies(PostIds) :
                  CommentViewSet_create(u, d)
    \/ Idle /\ next_comment_id <= MaxComments
            /\ \E u \in Requesters, d \in CommentBodies(PostIds), a \in Users :
                  CommentViewSet_create(u, WithAuthor(d, a))
    \/ Idle /\ \E m \in {"PUT", "PATCH"}, u \in Requesters, pk \in CommentIds,
                  d \in CommentBodies(PostIds) : CommentViewSet_update(m, u, pk, d)
    \/ Idle /\ \E u \in Requesters, pk \in CommentIds : CommentViewSet_destroy(u, pk)
    \/ Close

PostSpec == Init /\ [][PostNext]_vars

\* The likes of the social-media API and their notifications.
LikeNext ==
    \/ Idle /\ next_post_id <= MaxPosts
            /\ \E u \in Requesters, d \in PostBodies : PostViewSet_create(u, d)
    \/ Idle /\ \E u \in Requesters, pk \in PostIds : PostViewSet_destroy(u, pk)
    \/ Idle /\ \E u \in Requesters, pk \in PostIds : LikePostView(u, pk)
    \/ Idle /\ \E u \in Requesters, pk \in PostIds : UnlikePostView(u, pk)
    \/ Close

LikeSpec == Init /\ [][LikeNext]_vars

\* The accounts of the social-media API: registration, login, profile.
AccountNext ==
    \/ Idle /\ \E d \in RegisterBodies : RegisterView(d)
    \/ Idle /\ \E d \in LoginBodies : LoginView(d)
    \/ Idle /\ \E m \in {"GET", "PATCH"}, a \in AuthHeaders, d \in ProfileBodies :
                  ProfileView(m, a, d)
    \/ Close

AccountSpec == Init /\ [][AccountNext]_vars

\* The follow relation and the feed of the social-media API.
FeedPostIds == 1..(MaxFeedPosts + 1)

FeedNext ==
    \/ Idle /\ next_post_id <= MaxFeedPosts
            /\ \E u \in Requesters, d \in PostBodies : PostViewSet_create(u, d)
    \/ Idle /\ \E u \in Requesters, pk \in FeedPostIds : PostViewSet_destroy(u, pk)
    \/ Idle /\ \E u \in Requesters, v \in Users : FollowUserView(u, v)
    \/ Idle /\ \E u \in Requesters, v \in Users : UnfollowUserView(u, v)
    \/ Idle /\ \E u \in Requesters : FeedView(u)
    \/ Close
    \/ Tick

FeedSpec == Init /\ [][FeedNext]_vars

\* The two routes of advanced-api-project's api/urls.py, over books that the
\* ORM has stored.
UrlNext ==
    \/ Idle /\ \E m \in HttpMethods, u \in BookRequesters, d \in UrlBodies :
                  book_list(m, u, d)
    \/ Idle /\ \E m \in HttpMethods, u \in BookRequesters, pk \in BookIds,
                  d \in UrlBodies : book_detail(m, u, pk, d)
    \/ Idle /\ \E row \in OrmBookRows : Book_objects_create(row)
    \/ Close

UrlSpec == Init /\ [][UrlNext]_vars

\* Authors and books: the ORM's creations and deletions, the API's updates
\* and deletions of books, and AuthorSerializer.
AuthorNext ==
    \/ Idle /\ \E n \in AuthorNames : Author_objects_create(n)
    \/ Idle /\ \E pk \in AuthorIds : Author_delete(pk)
    \/ Idle /\ \E row \in OrmBookRows : Book_objects_create(row)
    \/ Idle /\ \E m \in {"PUT", "PATCH"}, pk \in BookIds, a \in AuthorIds,
                  F \in {Fields, {"author"}} :
                  BookUpdateView(m, "testuser", pk, BodyOf(F, <<"a">>, ClockYears[1], a))
    \/ Idle /\ \E pk \in BookIds : BookDeleteView("testuser", pk)
    \/ Idle /\ \E pk \in AuthorIds : AuthorSerializer_data(pk)
    \/ Idle /\ \E d \in AuthorBodies : AuthorSerializer_save(d)
    \/ Close

AuthorSpec == Init /\ [][AuthorNext]_vars

\* The users of relationship_app and their profiles.
ProfileNext ==
    \/ Idle /\ \E u \in Usernames : User_save(u)
    \/ Idle /\ \E u \in Usernames, r \in Roles : UserProfile_save(u, r)
    \/ Close

ProfileSpec == Init /\ [][ProfileNext]_vars

\* The permission-gated post views of app: requesters with every set of the
\* four permissions, forms with a title and a content.
AppNext ==
    \/ Idle /\ \E perms \in SUBSET AppPermissions : view_posts(perms)
    \/ Idle /\ \E perms \in SUBSET AppPermissions, m \in {"GET", "POST"},
                  d \in [title : {"t1", "t2"}, content : {"c1"}] :
                  create_post(perms, m, d)
    \/ Idle /\ \E perms \in SUBSET AppPermissions, m \in {"GET", "POST"},
                  id \in 1..(MaxAppPosts + 1),
                  d \in [title : {"t1", "t2"}, content : {"c1"}] :
                  edit_post(perms, m, id, d)
    \/ Idle /\ \E perms \in SUBSET AppPermissions, m \in {"GET", "POST"},
                  id \in 1..(MaxAppPosts + 1) : delete_post(perms, m, id)
    \/ Close

AppSpec == Init /\ [][AppNext]_vars

\* Like requests in concurrent workers: each worker handles one request, a
\* statement of LikePostView.post at a time, in any interleaving.
ConcurrentLikeNext ==
    \/ Idle /\ next_post_id <= MaxPosts
            /\ \E u \in Users, d \in PostBodies : PostViewSet_create(u, d)
    \/ Close
    \/ \E w \in Workers, u \in Requesters, pk \in PostIds : like_begin(w, u, pk)
    \/ \E w \in Workers : like_get(w)
    \/ \E w \in Workers : like_insert(w)
    \/ \E w \in Workers : like_notify(w)

ConcurrentLikeSpec == Init /\ [][ConcurrentLikeNext]_vars

----------------------------------------------------------------------------
(* Properties of the Book API *)

\* a step that handles a request of one of the operations ops
Handles(ops) == Idle /\ req'.op \in ops

\* C1, as amended: a create request, or an update request (PUT or PATCH)
\* addressed to an existing book, by an authenticated user, whose
\* publication_year is greater than the server's current year is rejected
\* with 400, the errors name publication_year and the books are unchanged.
C1_FutureYearRejected ==
    [][ ( /\ Handles({"create", "update"})
          /\ is_authenticated(req'.user)
          /\ req'.op = "update" => req'.pk \in DOMAIN books
          /\ "publication_year" \in DOMAIN req'.data
          /\ req'.data["publication_year"] > current_year )
        => ( /\ resp'.status = 400
             /\ "publication_year" \in DOMAIN resp'.data
             /\ books' = books ) ]_vars

\* C1, as stated: every create and every update request by an authenticated
\* user with a future publication_year is rejected with 400 naming the field.
C1_AsStated ==
    [][ ( /\ Handles({"create", "update"})
          /\ is_authenticated(req'.user)
          /\ "publication_year" \in DOMAIN req'.data
          /\ req'.data["publication_year"] > current_year )
        => ( /\ resp'.status = 400
             /\ "publication_year" \in DOMAIN resp'.data
             /\ books' = books ) ]_vars

\* a PATCH of an existing book with a future year alone has been rejected
C1_Witness ==
    /\ req.op = "update"
    /\ req.method = "PATCH"
    /\ is_authenticated(req.user)
    /\ req.pk \in DOMAIN books
    /\ DOMAIN req.data = {"publication_year"}
    /\ req.data["publication_year"] > current_year
    /\ resp.status = 400
    /\ DOMAIN resp.data = {"publication_year"}

\* C2: an unauthenticated create, update or delete is answered with 401 or
\* 403 and adds, removes and modifies no book, whatever its body and whether
\* or not the book it addresses exists.
C2_AnonymousWritesDenied ==
    [][ ( /\ Handles({"create", "update", "destroy"})
          /\ ~is_authenticated(req'.user) )
        => ( /\ resp'.status \in {401, 403}
             /\ books' = books
             /\ next_book_id' = next_book_id ) ]_vars

\* an anonymous delete of an existing book has been denied
C2_Witness ==
    /\ req.op = "destroy"
    /\ ~is_authenticated(req.user)
    /\ req.pk \in DOMAIN books
    /\ resp.status \in {401, 403}

\* C6: a delete of an existing book by an authenticated user returns 204 and
\* removes that book and no other; a delete of an id that is not (or no
\* longer) there returns 404 and removes nothing; a deleted id does not come
\* back, so the second delete of an id returns 404.
C6_DeleteThenNotFound ==
    [][ /\ ( /\ Handles({"destroy"})
             /\ is_authenticated(req'.user) )
           => IF req'.pk \in DOMAIN books
              THEN /\ resp'.status = 204
                   /\ DOMAIN books' = DOMAIN books \ {req'.pk}
                   /\ Cardinality(DOMAIN books') = Cardinality(DOMAIN books) - 1
                   /\ \A id \in DOMAIN books' : books'[id] = books[id]
              ELSE /\ resp'.status = 404
                   /\ books' = books
        /\ \A id \in 1..(next_book_id - 1) :
              id \notin DOMAIN books => id \notin DOMAIN books' ]_vars

\* the second delete of a book: the id was handed out, and is gone
C6_Witness ==
    /\ req.op = "destroy"
    /\ is_authenticated(req.user)
    /\ req.pk < next_book_id
    /\ req.pk \notin DOMAIN books
    /\ resp.status = 404

\* C7: a create by an authenticated user with a title of 1 to 200
\* characters, an existing author and a publication_year up to and including
\* the current year returns 201, adds exactly one book and echoes the title
\* and the publication_year.
C7_ValidCreate ==
    [][ ( /\ Handles({"create"})
          /\ is_authenticated(req'.user)
          /\ DOMAIN req'.data = Fields
          /\ Len(req'.data["title"]) \in 1..TitleMaxLength
          /\ req'.data["author"] \in authors
          /\ req'.data["publication_year"] <= current_year )
        => ( /\ resp'.status = 201
             /\ Cardinality(DOMAIN books') = Cardinality(DOMAIN books) + 1
             /\ \A id \in DOMAIN books : id \in DOMAIN books' /\ books'[id] = books[id]
             /\ resp'.data.title = req'.data["title"]
             /\ resp'.data.publication_year = req'.data["publication_year"] ) ]_vars

\* a book of the current year with a title of the maximal length was created
C7_Witness ==
    /\ req.op = "create"
    /\ resp.status = 201
    /\ req.data["publication_year"] = current_year
    /\ Len(req.data["title"]) = TitleMaxLength
    /\ resp.data.id \in DOMAIN books

\* C8: the list and the detail of an existing book answer 200 whoever asks,
\* authenticated or not: the list holds every stored book once (none when
\* there is none), the detail the id, title, publication_year and author of
\* the stored row.
C8_ReadsOpenToAll ==
    /\ req.op = "list" =>
          /\ resp.status = 200
          /\ Len(resp.data) = Cardinality(DOMAIN books)
          /\ \A id \in DOMAIN books : \E i \in 1..Len(resp.data) :
                /\ resp.data[i].id = id
                /\ resp.data[i].title = books[id].title
                /\ resp.data[i].publication_year = books[id].publication_year
                /\ resp.data[i].author = books[id].author
    /\ (req.op = "retrieve" /\ req.pk \in DOMAIN books) =>
          /\ resp.status = 200
          /\ DOMAIN resp.data = {"id", "title", "publication_year", "author"}
          /\ resp.data.id = req.pk
          /\ resp.data.title = books[req.pk].title
          /\ resp.data.publication_year = books[req.pk].publication_year
          /\ resp.data.author = books[req.pk].author

\* an anonymous client has listed the two stored books
C8_Witness ==
    /\ req.op = "list"
    /\ ~is_authenticated(req.user)
    /\ resp.status = 200
    /\ Len(resp.data) = 2

\* C9: a retrieve, an update by an authenticated user and a delete by an
\* authenticated user addressed to an id that is no book return 404 and leave
\* the books unchanged.
C9_MissingBookNotFound ==
    [][ ( /\ Handles({"retrieve", "update", "destroy"})
          /\ req'.op = "retrieve" \/ is_authenticated(req'.user)
          /\ req'.pk \notin DOMAIN books )
        => ( /\ resp'.status = 404
             /\ books' = books ) ]_vars

\* a PUT with a valid body to an id that is no book was answered 404
C9_Witness ==
    /\ req.op = "update"
    /\ req.method = "PUT"
    /\ is_authenticated(req.user)
    /\ req.pk \notin DOMAIN books
    /\ DOMAIN req.data = Fields
    /\ books # <<>>
    /\ resp.status = 404

\* C10: a successful update gives the fields of the request body the
\* submitted values and leaves the book's other fields and every other book
\* unchanged; a successful PUT carries, and so sets, all three fields.
C10_UpdateFrame ==
    [][ ( /\ Handles({"update"})
          /\ resp'.status = 200 )
        => ( /\ DOMAIN books' = DOMAIN books
             /\ \A id \in DOMAIN books \ {req'.pk} : books'[id] = books[id]
             /\ \A f \in Fields \cap DOMAIN req'.data :
                   books'[req'.pk][f] = req'.data[f]
             /\ \A f \in Fields \ DOMAIN req'.data :
                   books'[req'.pk][f] = books[req'.pk][f]
             /\ req'.method = "PUT" => DOMAIN req'.data = Fields ) ]_vars

\* a PATCH of the title alone succeeded while another book is stored
C10_Witness ==
    /\ req.op = "update"
    /\ req.method = "PATCH"
    /\ resp.status = 200
    /\ DOMAIN req.data = {"title"}
    /\ Cardinality(DOMAIN books) = 2
    /\ books[req.pk].title = req.data["title"]

\* the fields of a create body that are missing or that a field validator
\* refuses: an empty or too long title, the id of no author, a year that
\* is no integer
Offending(data) ==
    (Fields \ DOMAIN data)
    \cup {f \in DOMAIN data \cap {"title"} :
            Len(data[f]) = 0 \/ Len(data[f]) > TitleMaxLength}
    \cup {f \in DOMAIN data \cap {"author"} : data[f] \notin authors}
    \cup {f \in DOMAIN data \cap {"publication_year"} : data[f] = not_a_number}

\* C11: a create request of an authenticated user whose body lacks title,
\* publication_year or author, names no existing author, has an empty or a
\* too long title, or a publication_year that is no integer, is answered 400
\* with an error for each such field, and no book is created.
C11_InvalidCreateRejected ==
    [][ ( /\ Handles({"create"})
          /\ is_authenticated(req'.user)
          /\ Offending(req'.data) # {} )
        => /\ resp'.status = 400
           /\ Offending(req'.data) \subseteq DOMAIN resp'.data
           /\ books' = books
           /\ next_book_id' = next_book_id ]_vars

\* a body whose only fault is a year that is no integer was refused, the
\* error keyed by publication_year alone
C11_Witness ==
    /\ req.op = "create"
    /\ is_authenticated(req.user)
    /\ DOMAIN req.data = Fields
    /\ req.data["publication_year"] = not_a_number
    /\ resp.status = 400
    /\ DOMAIN resp.data = {"publication_year"}

\* the ids of the books of a list response
ListedIds == {resp.data[i].id : i \in 1..Len(resp.data)}

\* a list request whose author parameter, if any, names an Author row
ListAnswered ==
    /\ req.op = "list"
    /\ "author" \in DOMAIN req.params => req.params["author"] \in authors

\* the books that match the author and publication_year parameters given
Filtered ==
    {id \in DOMAIN books :
        /\ "author" \in DOMAIN req.params => books[id].author = req.params["author"]
        /\ "publication_year" \in DOMAIN req.params
              => books[id].publication_year = req.params["publication_year"]}

\* the title holds the term, letters compared without their case
Holds(title, term) ==
    \E k \in 0..(Len(title) - Len(term)) :
        \A i \in 1..Len(term) : lower(title[k + i]) = lower(term[i])

\* C12: a list with author=<id> of an existing author holds the books of
\* that author and no other, a list with publication_year=<y> the books of
\* that year and no other (none, with 200, when none match), and a list
\* with both the books that match both.
C12_Filter ==
    (ListAnswered /\ "search" \notin DOMAIN req.params) =>
        /\ resp.status = 200
        /\ ListedIds = Filtered
        /\ Len(resp.data) = Cardinality(Filtered)
        /\ \A i \in 1..Len(resp.data) :
              resp.data[i] = BookData(resp.data[i].id, books[resp.data[i].id])

\* of two stored books of one author, the list by author and year holds
\* the one of that year
C12_Witness ==
    /\ req.op = "list"
    /\ DOMAIN req.params = {"author", "publication_year"}
    /\ resp.status = 200
    /\ Len(resp.data) = 1
    /\ Cardinality({id \in DOMAIN books : books[id].author = req.params["author"]}) = 2

\* C13: a list with author=<id> of no stored author is answered 400 with
\* an error for the author parameter, whatever books are stored.
C13_UnknownAuthorRejected ==
    (/\ req.op = "list"
     /\ "author" \in DOMAIN req.params
     /\ req.params["author"] \notin authors) =>
        /\ resp.status = 400
        /\ "author" \in DOMAIN resp.data

\* with books stored, a list by the id of no author was refused
C13_Witness ==
    /\ req.op = "list"
    /\ DOMAIN req.params = {"author"}
    /\ req.params["author"] \notin authors
    /\ books # <<>>
    /\ resp.status = 400

Sorted(ordering) ==
    \A i \in 1..(Len(resp.data) - 1) :
        CASE ordering = "title" -> ~str_lt(resp.data[i + 1].title, resp.data[i].title)
          [] ordering = "-title" -> ~str_lt(resp.data[i].title, resp.data[i + 1].title)
          [] ordering = "publication_year" ->
                resp.data[i].publication_year <= resp.data[i + 1].publication_year
          [] ordering = "-publication_year" ->
                resp.data[i].publication_year >= resp.data[i + 1].publication_year

\* C15: a list without an ordering parameter is sorted by publication_year
\* descending; with ordering=title or ordering=publication_year it is
\* sorted ascending, with ordering=-title or ordering=-publication_year
\* descending; and it holds each selected book once, whatever the order.
C15_Ordering ==
    ListAnswered =>
        /\ resp.status = 200
        /\ "ordering" \notin DOMAIN req.params => Sorted("-publication_year")
        /\ \A o \in {"title", "-title", "publication_year", "-publication_year"} :
              ("ordering" \in DOMAIN req.params /\ req.params["ordering"] = o) => Sorted(o)
        /\ \A i, j \in 1..Len(resp.data) : resp.data[i].id = resp.data[j].id => i = j
        /\ ListedIds =
              {id \in Filtered :
                  "search" \in DOMAIN req.params
                      => \A term \in get_search_terms(req.params["search"]) :
                            Holds(books[id].title, term)}

\* a list ordered by title, where the default order is the other one
C15_Witness ==
    /\ req.op = "list"
    /\ DOMAIN req.params = {"ordering"}
    /\ req.params["ordering"] = "title"
    /\ resp.status = 200
    /\ Len(resp.data) = 2
    /\ str_lt(resp.data[1].title, resp.data[2].title)
    /\ resp.data[1].publication_year < resp.data[2].publication_year

----------------------------------------------------------------------------
(* Properties of the social-media API *)

\* the number of rows of the Like table l for (user, pk)
LikeCount(l, user, pk) ==
    Cardinality({i \in 1..Len(l) : l[i].user = user /\ l[i].post = pk})

\* C3: a like of an existing post by an authenticated user who has no Like
\* row for it returns 200 and leaves one row; a like by a user who has one
\* returns 400 with the already-liked message of the view and changes
\* neither the Like rows nor the notifications; no (user, post) pair ever
\* has more than one Like row.
C3_LikeTwice ==
    [][ /\ ( /\ Handles({"like"})
             /\ is_authenticated(req'.user)
             /\ req'.pk \in DOMAIN posts )
           => IF LikeCount(likes, req'.user, req'.pk) = 0
              THEN /\ resp'.status = 200
                   /\ LikeCount(likes', req'.user, req'.pk) = 1
              ELSE /\ resp'.status = 400
                   /\ resp'.data.message = "You checked this post already"
                   /\ likes' = likes
                   /\ notifications' = notifications
        /\ \A u \in Users, p \in DOMAIN posts' : LikeCount(likes', u, p) <= 1 ]_vars

\* the second like of another user's post: refused, one row, one notification
C3_Witness ==
    /\ req.op = "like"
    /\ resp.status = 400
    /\ posts[req.pk].author # req.user
    /\ LikeCount(likes, req.user, req.pk) = 1
    /\ Len(notifications) = 1

\* C16: a like that creates a Like row adds one notification, to the post's
\* author, from the liking user, about the post, when the liking user is not
\* the author, and none when they are: the author's like of their own post
\* is answered 200 and stored without a notification. A like that creates
\* no row adds none, and no notification ever has its actor as recipient.
C16_LikeNotifies ==
    [][ /\ (Handles({"like"}) /\ Len(likes') = Len(likes) + 1)
           => /\ resp'.status = 200
              /\ LikeCount(likes', req'.user, req'.pk) = 1
              /\ IF posts[req'.pk].author # req'.user
                 THEN /\ Len(notifications') = Len(notifications) + 1
                      /\ SubSeq(notifications', 1, Len(notifications)) = notifications
                      /\ notifications'[Len(notifications')].recipient = posts[req'.pk].author
                      /\ notifications'[Len(notifications')].actor = req'.user
                      /\ notifications'[Len(notifications')].target = req'.pk
                 ELSE notifications' = notifications
        /\ (Handles({"like"}) /\ likes' = likes) => notifications' = notifications
        /\ \A i \in 1..Len(notifications') :
              notifications'[i].recipient # notifications'[i].actor ]_vars

\* the author's like of their own post: stored, answered 200, no
\* notification
C16_Witness ==
    /\ req.op = "like"
    /\ resp.status = 200
    /\ posts[req.pk].author = req.user
    /\ LikeCount(likes, req.user, req.pk) = 1
    /\ notifications = <<>>

\* C17: an unlike by an authenticated user of a post they like deletes the
\* Like row of that user and post, and no other, and is answered 200; an
\* unlike of a post they do not like is answered 400 with the not-liked
\* message of the view and changes no Like row.
C17_Unlike ==
    [][ ( /\ Handles({"unlike"})
          /\ is_authenticated(req'.user)
          /\ req'.pk \in DOMAIN posts )
        => IF LikeCount(likes, req'.user, req'.pk) > 0
           THEN /\ resp'.status = 200
                /\ LikeCount(likes', req'.user, req'.pk) = 0
                /\ Len(likes') = Len(likes) - 1
                /\ \A u \in Users, p \in DOMAIN posts :
                      <<u, p>> # <<req'.user, req'.pk>>
                          => LikeCount(likes', u, p) = LikeCount(likes, u, p)
           ELSE /\ resp'.status = 400
                /\ resp'.data.message = "You have not liked this post"
                /\ likes' = likes ]_vars

\* an unlike was answered 200 and the like of the other user is still
\* stored
C17_Witness ==
    /\ req.op = "unlike"
    /\ resp.status = 200
    /\ LikeCount(likes, req.user, req.pk) = 0
    /\ Len(likes) = 1

MutatingOps == {"post_update", "post_destroy", "comment_update", "comment_destroy"}

\* the table a mutating request addresses, and whether its body is valid
TargetTable(r) == IF r.op \in {"post_update", "post_destroy"} THEN posts ELSE comments

ValidBody(r) ==
    CASE r.op = "post_update" -> r.method = "PATCH" \/ DOMAIN r.data = PostFields
      [] r.op = "comment_update" ->
            /\ r.method = "PATCH" \/ DOMAIN r.data = CommentFields
            /\ "post" \in DOMAIN r.data => r.data["post"] \in DOMAIN posts
      [] OTHER -> TRUE

\* C4, as amended: a PUT, PATCH or DELETE of an existing post or comment by
\* a requester who is not its author is denied and changes nothing, with 403
\* when the requester is authenticated and with 401 when not; from the author
\* a DELETE succeeds, and a PUT or PATCH succeeds when its body is valid and
\* is rejected with 400, changing nothing, when it is not.
C4_AuthorOnly ==
    [][ ( /\ Handles(MutatingOps)
          /\ req'.pk \in DOMAIN TargetTable(req') )
        => IF TargetTable(req')[req'.pk].author # req'.user
           THEN /\ resp'.status = IF is_authenticated(req'.user) THEN 403 ELSE 401
                /\ posts' = posts
                /\ comments' = comments
           ELSE IF ValidBody(req')
           THEN resp'.status = IF req'.method = "DELETE" THEN 204 ELSE 200
           ELSE /\ resp'.status = 400
                /\ posts' = posts
                /\ comments' = comments ]_vars

\* C4, as stated: a requester who is not the author is denied with 403,
\* authenticated or not, and nothing changes; the same request from the
\* author succeeds.
C4_AsStated ==
    [][ ( /\ Handles(MutatingOps)
          /\ req'.pk \in DOMAIN TargetTable(req') )
        => IF TargetTable(req')[req'.pk].author # req'.user
           THEN /\ resp'.status = 403
                /\ posts' = posts
                /\ comments' = comments
           ELSE resp'.status \in {200, 204} ]_vars

\* a valid PUT of a post by an authenticated user who is not its author
\* was forbidden
C4_Witness ==
    /\ req.op = "post_update"
    /\ req.method = "PUT"
    /\ DOMAIN req.data = PostFields
    /\ is_authenticated(req.user)
    /\ req.pk \in DOMAIN posts
    /\ posts[req.pk].author # req.user
    /\ posts[req.pk].title # req.data["title"]
    /\ resp.status = 403

\* C5: the feed of an authenticated user holds the posts whose author the
\* user follows, each once and no other, newest first: none when the user
\* follows nobody.
C5_Feed ==
    (req.op = "feed" /\ is_authenticated(req.user)) =>
        LET followed == {id \in DOMAIN posts : <<req.user, posts[id].author>> \in following}
            n == Len(resp.data)
        IN  /\ resp.status = 200
            /\ n = Cardinality(followed)
            /\ {resp.data[i].id : i \in 1..n} = followed
            /\ \A i \in 1..n :
                  /\ resp.data[i].author = posts[resp.data[i].id].author
                  /\ resp.data[i].created_at = posts[resp.data[i].id].created_at
            /\ \A i \in 1..(n - 1) : resp.data[i].created_at >= resp.data[i + 1].created_at

\* a feed of two posts of different times, while a post of an author the
\* user does not follow is stored
C5_Witness ==
    /\ req.op = "feed"
    /\ resp.status = 200
    /\ Len(resp.data) = 2
    /\ resp.data[1].created_at > resp.data[2].created_at
    /\ Cardinality(DOMAIN posts) = 3

----------------------------------------------------------------------------
(* Properties of the accounts of the social-media API *)

\* C18: a registration with a username of no user and a password is
\* answered 201; a registration answered 201 has added one user, of the
\* submitted username, changed no other, and its response holds the key of
\* the token of that user, which is the token of no other user.
C18_Register ==
    [][ Handles({"register"}) =>
          /\ ( /\ {"username", "password"} \subseteq DOMAIN req'.data
               /\ req'.data["username"] \notin DOMAIN accounts )
             => resp'.status = 201
          /\ resp'.status = 201 =>
                /\ req'.data["username"] \notin DOMAIN accounts
                /\ DOMAIN accounts' = DOMAIN accounts \cup {req'.data["username"]}
                /\ \A u \in DOMAIN accounts : accounts'[u] = accounts[u]
                /\ "token" \in DOMAIN resp'.data
                /\ req'.data["username"] \in DOMAIN tokens'
                /\ resp'.data.token = tokens'[req'.data["username"]]
                /\ \A v \in DOMAIN tokens' \ {req'.data["username"]} :
                      tokens'[v] # resp'.data.token
                /\ resp'.data.user.username = req'.data["username"] ]_vars

\* a user registered while another user had a token
C18_Witness ==
    /\ req.op = "register"
    /\ resp.status = 201
    /\ req.data["username"] \in DOMAIN accounts
    /\ Cardinality(DOMAIN tokens) >= 2

\* C19: a login with the username and the password of a user is answered
\* 200 with the key of the token of that user, a token created by the login
\* when the user had none; the tokens of the other users stay as they were.
C19_Login ==
    [][ ( /\ Handles({"login"})
          /\ LoginFields \subseteq DOMAIN req'.data
          /\ req'.data["username"] \in DOMAIN accounts
          /\ accounts[req'.data["username"]].password = req'.data["password"] )
        => /\ resp'.status = 200
           /\ req'.data["username"] \in DOMAIN tokens'
           /\ resp'.data.token = tokens'[req'.data["username"]]
           /\ \A v \in DOMAIN tokens : v \in DOMAIN tokens' /\ tokens'[v] = tokens[v]
           /\ \A v \in DOMAIN tokens' \ {req'.data["username"]} :
                 tokens'[v] # resp'.data.token
           /\ accounts' = accounts ]_vars

\* the login of a user created without a token: the only token is theirs
C19_Witness ==
    /\ req.op = "login"
    /\ resp.status = 200
    /\ DOMAIN tokens = {req.data["username"]}
    /\ resp.data.token = tokens[req.data["username"]]
    /\ DOMAIN accounts = Users

\* C20: a GET of the profile without credentials is answered 401; with the
\* token of a user it is answered 200 with the username and the bio of that
\* user.
C20_Profile ==
    (req.op = "profile" /\ req.method = "GET") =>
        /\ req.auth = NoToken => resp.status = 401
        /\ \A u \in DOMAIN tokens :
              tokens[u] = req.auth =>
                  /\ resp.status = 200
                  /\ resp.data.username = u
                  /\ resp.data.bio = accounts[u].bio

\* a user has read their own bio, which is not that of another user
C20_Witness ==
    /\ req.op = "profile"
    /\ req.method = "GET"
    /\ resp.status = 200
    /\ resp.data.bio \in Bios
    /\ resp.data.username # "u1"
    /\ \E v \in DOMAIN accounts :
          v # resp.data.username /\ accounts[v].bio \in Bios \ {resp.data.bio}

----------------------------------------------------------------------------
(* The URL configuration of advanced-api-project *)

\* C21 (as stated; the routes do not do this): on /books/ a POST by an
\* authenticated user with a valid body creates a book, and on /books/<pk>/
\* of a stored book a valid PUT or PATCH by an authenticated user updates it
\* and a DELETE by an authenticated user deletes it.
C21_AsStated ==
    [][/\ Handles({"book-list"}) /\ req'.method = "POST"
          /\ is_authenticated(req'.user) /\ is_valid(req'.data, FALSE)
          => resp'.status = 201 /\ DOMAIN books' # DOMAIN books
       /\ Handles({"book-detail"}) /\ req'.method \in {"PUT", "PATCH"}
          /\ is_authenticated(req'.user) /\ req'.pk \in DOMAIN books
          /\ is_valid(req'.data, req'.method = "PATCH")
          => resp'.status = 200
             /\ books'[req'.pk] = updated_row(books[req'.pk], req'.data)
       /\ Handles({"book-detail"}) /\ req'.method = "DELETE"
          /\ is_authenticated(req'.user) /\ req'.pk \in DOMAIN books
          => resp'.status = 204 /\ req'.pk \notin DOMAIN books']_vars

----------------------------------------------------------------------------
(* Properties of the Author and Book models and of AuthorSerializer *)

\* C23: deleting an author deletes exactly the books written by that author
\* and the author, and after every step (creations, updates and deletions of
\* authors and books) every stored book references an author that exists.
C23_Cascade ==
    [][/\ Handles({"Author.delete"})
          => /\ req'.pk \notin authors'
             /\ DOMAIN books' = {b \in DOMAIN books : books[b].author # req'.pk}
             /\ \A b \in DOMAIN books' : books'[b] = books[b]
       /\ \A b \in DOMAIN books' : books'[b].author \in authors']_vars

\* an author is deleted with one of two stored books; the other's stays
C23_Witness ==
    /\ req.op = "Author.delete"
    /\ resp.data.deleted = 2
    /\ Cardinality(DOMAIN books) = 1

\* C24: the nested books of an author's serialized representation are
\* exactly the stored books whose author is that author, each once and in
\* BookSerializer form; writing an author with book data stores no book and
\* changes none.
C24_NestedBooks ==
    [][/\ Handles({"AuthorSerializer.data"})
          => LET nested == resp'.data.books
             IN /\ {nested[i] : i \in 1..Len(nested)} =
                     {BookData(b, books[b]) :
                        b \in {c \in DOMAIN books : books[c].author = req'.pk}}
                /\ \A i, j \in 1..Len(nested) : nested[i] = nested[j] => i = j
       /\ Handles({"AuthorSerializer.save"})
          => books' = books /\ resp'.data.books = <<>>]_vars

\* an author created after the start is serialized with their one book,
\* while another author's book is stored
C24_Witness ==
    /\ req.op = "AuthorSerializer.data"
    /\ Len(resp.data.books) = 1
    /\ Cardinality(DOMAIN books) = 2
    /\ req.pk \notin InitialAuthors

----------------------------------------------------------------------------
(* Properties of like requests handled at the same time *)

\* C22: for every (user, post), however the statements of the like requests
\* for the pair interleave: at most one Like row, at most one response 200
\* and at most one notification exist at any time, and when all the requests
\* for the pair are answered there is exactly one Like row, exactly one
\* request has reported 200 and the others 400.
C22_ConcurrentLikes ==
    \A u \in Users, pk \in PostIds :
        LET R == {w \in Workers : /\ like_requests[w].pc # "idle"
                                  /\ like_requests[w].user = u
                                  /\ like_requests[w].pk = pk
                                  /\ like_requests[w].status # NotFound.status}
            ok == {w \in R : like_requests[w].status = 200}
            notes == {i \in 1..Len(notifications) :
                        /\ notifications[i].actor = u
                        /\ notifications[i].target = pk}
        IN /\ Cardinality(LikeRows(u, pk)) <= 1
           /\ Cardinality(ok) <= 1
           /\ Cardinality(notes) <= 1
           /\ R # {} /\ (\A w \in R : like_requests[w].pc = "done")
              => /\ Cardinality(LikeRows(u, pk)) = 1
                 /\ Cardinality(ok) = 1
                 /\ \A w \in R \ ok : like_requests[w].status = 400

\* two requests for one pair have both passed the SELECT before either
\* INSERT: one has created the row and notified the author, the other has
\* met the constraint
C22_Witness ==
    \E w1, w2 \in Workers :
        /\ w1 # w2
        /\ like_requests[w1].user = like_requests[w2].user
        /\ like_requests[w1].pk = like_requests[w2].pk
        /\ like_requests[w1].pc = "done" /\ like_requests[w1].status = 200
        /\ like_requests[w2].pc = "done" /\ like_requests[w2].integrity_error
        /\ Len(notifications) = 1

----------------------------------------------------------------------------
(* Properties of the user profiles of relationship_app *)

----------------------------------------------------------------------------
(* The stored publication years *)

\* C26: with books created and modified through the API's create and update
\* views only, and the server's year never decreasing, every stored book
\* has a publication_year that is at most the current year, in every
\* reachable state.
C26_NoFutureBookStored ==
    \A b \in DOMAIN books : books[b].publication_year <= current_year

\* after the year has advanced, a PATCH that carries no publication_year has
\* updated a book of the year before
C26_Witness ==
    /\ req.op = "update" /\ req.method = "PATCH"
    /\ "publication_year" \notin DOMAIN req.data
    /\ resp.status = 200
    /\ current_year = ClockYears[2]
    /\ books[req.pk].publication_year = ClockYears[1]

----------------------------------------------------------------------------
(* Unlike and the notifications *)

\* the number of notifications of the table n from actor about the post pk
NotificationCount(n, actor, pk) ==
    Cardinality({i \in 1..Len(n) : n[i].actor = actor /\ n[i].target = pk})

\* C27: an unlike leaves the Notification table as it is, whatever it
\* answers; and a like by a user who is not the post's author and has no
\* Like row for the post (none yet, or none since their unlike) returns
\* 200, leaves one Like row and adds one notification from the user about
\* the post to those that exist: like, unlike, like leaves two.
C27_UnlikeKeepsNotifications ==
    [][/\ Handles({"unlike"}) => notifications' = notifications
       /\ ( /\ Handles({"like"})
            /\ is_authenticated(req'.user)
            /\ req'.pk \in DOMAIN posts
            /\ posts[req'.pk].author # req'.user
            /\ LikeCount(likes, req'.user, req'.pk) = 0 )
          => /\ resp'.status = 200
             /\ LikeCount(likes', req'.user, req'.pk) = 1
             /\ NotificationCount(notifications', req'.user, req'.pk) =
                  NotificationCount(notifications, req'.user, req'.pk) + 1]_vars

\* the second like of like, unlike, like: answered 200, one Like row, two
\* notifications from the user about the post
C27_Witness ==
    /\ req.op = "like"
    /\ resp.status = 200
    /\ posts[req.pk].author # req.user
    /\ LikeCount(likes, req.user, req.pk) = 1
    /\ NotificationCount(notifications, req.user, req.pk) = 2

----------------------------------------------------------------------------
(* Authorship of posts and comments *)

\* C28: a create request that is answered 201 comes from an authenticated
\* user and stores a post (a comment) whose author is that user, whatever
\* author the body names; and no step stores a new post or comment whose
\* author is not the user of the request.
C28_AuthorIsRequester ==
    [][/\ Handles({"post_create"}) /\ resp'.status = 201
          => /\ is_authenticated(req'.user)
             /\ resp'.data.id \notin DOMAIN posts
             /\ posts'[resp'.data.id].author = req'.user
             /\ resp'.data.author = req'.user
       /\ Handles({"comment_create"}) /\ resp'.status = 201
          => /\ is_authenticated(req'.user)
             /\ resp'.data.id \notin DOMAIN comments
             /\ comments'[resp'.data.id].author = req'.user
             /\ resp'.data.author = req'.user
       /\ \A id \in DOMAIN posts' \ DOMAIN posts : posts'[id].author = req'.user
       /\ \A id \in DOMAIN comments' \ DOMAIN comments :
             comments'[id].author = req'.user]_vars

\* a post is created by a user whose body names another user as its author
C28_Witness ==
    /\ req.op = "post_create"
    /\ resp.status = 201
    /\ "author" \in DOMAIN req.data
    /\ req.data["author"] # req.user
    /\ posts[resp.data.id].author = req.user

----------------------------------------------------------------------------
(* Properties of the permission-gated post views *)

\* the permission that the decorator of a view names
RequiredPermission(op) ==
    CASE op = "view_posts" -> "app.can_view"
      [] op = "create_post" -> "app.can_create"
      [] op = "edit_post" -> "app.can_edit"
      [] op = "delete_post" -> "app.can_delete"

\* C29: a request to view_posts, create_post, edit_post or delete_post by a
\* requester who lacks the permission the view names is answered 403 and
\* leaves the posts as they are, whatever other permissions the requester
\* holds; every other answer, and every change of the posts, comes from a
\* request whose requester holds the view's permission.
C29_PermissionGated ==
    [][Handles({"view_posts", "create_post", "edit_post", "delete_post"})
       => /\ RequiredPermission(req'.op) \notin req'.perms
             => resp'.status = 403 /\ app_posts' = app_posts
          /\ resp'.status # 403 => RequiredPermission(req'.op) \in req'.perms
          /\ app_posts' # app_posts
             => /\ RequiredPermission(req'.op) \in req'.perms
                /\ req'.op # "view_posts"]_vars

\* a requester holding the other three permissions asks to delete a stored
\* post: 403, and the post stays
C29_Witness ==
    /\ req.op = "delete_post"
    /\ req.perms = AppPermissions \ {"app.can_delete"}
    /\ req.post_id \in DOMAIN app_posts
    /\ resp.status = 403

----------------------------------------------------------------------------
(* Login and the tokens *)

\* C30: a successful login of a user who has a token returns the key of
\* that token and creates none; no key is ever generated for a user who has
\* a token (the keys generated are as many as the users with a token), and
\* no two users share a key.
C30_LoginIdempotent ==
    [][/\ ( /\ Handles({"login"})
            /\ resp'.status = 200
            /\ req'.data["username"] \in DOMAIN tokens )
          => /\ resp'.data.token = tokens[req'.data["username"]]
             /\ tokens' = tokens
             /\ next_token_key' = next_token_key
       /\ next_token_key' - 1 = Cardinality(DOMAIN tokens')
       /\ \A u, v \in DOMAIN tokens' : tokens'[u] = tokens'[v] => u = v]_vars

\* the user of the first key logs in again after another user has got a
\* token: the first key is returned
C30_Witness ==
    /\ req.op = "login"
    /\ resp.status = 200
    /\ resp.data.token = TokenKeys[1]
    /\ Cardinality(DOMAIN tokens) = 2

====
